---- MODULE Spec2Model ----
(***************************************************************************)
(* A model of libttree (ttree.c / ttree.h): the T*-tree index with its     *)
(* node windows, AVL-style rebalancing with key migration, successor       *)
(* chain and cursors.  Nodes live in a heap `tn` (address -> node record); *)
(* every public call is one action that runs the whole C function.         *)
(***************************************************************************)
EXTENDS Integers, Sequences, FiniteSets, TLC

(***************************************************************************)
(* Bounds of the model.                                                    *)
(***************************************************************************)
\* items the caller owns: item a carries key value a
MaxKey == 7
\* items used by the caller in the cursor scenarios
MaxCursorKey == 5
\* how often the caller inserts one and the same item
MaxInserts == 1
\* the items of the trees with wider nodes are 1..MaxWideKey
MaxWideKey == 6
\* the items of the trees whose items are replaced are 1..MaxReplaceKey
MaxReplaceKey == 3
MaxLargeKey == 3

Items == 1..MaxKey
CursorItems == 1..MaxCursorKey
\* keys-per-node values handed to __ttree_init
NumKeysChoices == {2}
\* offsetof(struct item, key) values handed to __ttree_init
KeyOffsets == {4}

(***************************************************************************)
(* Program constants.                                                      *)
(***************************************************************************)
NULL == 0
\* content of a key slot that was never written (malloc'ed, not memset)
Garbage == -99
TNODE_UNDEF == -1
TNODE_LEFT == 0
TNODE_RIGHT == 1
TNODE_ROOT == TNODE_UNDEF
TNODE_BOUND == TNODE_UNDEF
TCSR_END == -1
TCSR_OK == 0
CURSOR_CLOSED == 0
CURSOR_OPENED == 1
CURSOR_PENDING == 2
TNODE_ITEMS_MIN == 2
TNODE_ITEMS_MAX == 4096
EINVAL == 22
\* the address of the caller's Ttree object, and of its comparator
TreeObject == 1
KeyCmp == 1

(***************************************************************************)
(* Bit-field widths of TtreeNode: min_idx, max_idx are signed 12 bit, bfc  *)
(* is signed 4 bit.                                                        *)
(***************************************************************************)
Signed12(x) == ((x + 2048) % 4096) - 2048
Signed4(x) == ((x + 8) % 16) - 8

(***************************************************************************)
(* Macros of ttree.h and ttree.c.  t is the Ttree record, n a node record. *)
(***************************************************************************)
first_tnode_idx(t) == (t.keys_per_tnode \div 2) - 1
min_tnode_entries(t) == t.keys_per_tnode - (t.keys_per_tnode \div 4)
tnode_num_keys(n) == (n.max_idx - n.min_idx) + 1
tnode_is_empty(n) == tnode_num_keys(n) = 0
tnode_is_full(t, n) == tnode_num_keys(n) = t.keys_per_tnode
ttree_key2item(t, key) == key - t.key_offs
ttree_item2key(t, item) == item + t.key_offs
is_leaf_node(n) == n.sides[TNODE_LEFT] = NULL /\ n.sides[TNODE_RIGHT] = NULL
is_internal_node(n) == n.sides[TNODE_LEFT] # NULL /\ n.sides[TNODE_RIGHT] # NULL
is_half_leaf(n) ==
    /\ (n.sides[TNODE_LEFT] = NULL \/ n.sides[TNODE_RIGHT] = NULL)
    /\ ~(n.sides[TNODE_LEFT] # NULL /\ n.sides[TNODE_RIGHT] # NULL)
opposite_side(side) == IF side = 0 THEN 1 ELSE 0
\* __balance_factors[] = { -1, 1 }; TNODE_ROOT indexes it outside the array
__balance_factors == [s \in 0..1 |-> IF s = 0 THEN -1 ELSE 1]
side2bfc(side) ==
    IF side \in DOMAIN __balance_factors THEN __balance_factors[side]
    ELSE Garbage
subtree_is_unbalanced(n) == n.bfc < -1 \/ n.bfc > 1
left_heavy(n) == IF n.bfc < 0 THEN 1 ELSE 0
tnode_get_side(n) == (n.node_side % 4) - 1
tnode_set_side(n, side) ==
    [n EXCEPT !.node_side = ((n.node_side \div 4) * 4) + (side + 1)]
ttree_is_empty(t) == t.root = NULL
BoolInt(b) == IF b THEN 1 ELSE 0
Abs(x) == IF x < 0 THEN -x ELSE x

\* keys[i], where an index outside the array reads whatever lies there
ReadKey(keys, i) == IF i \in DOMAIN keys THEN keys[i] ELSE Garbage
\* keys[i] = v; the array is all of the node the model holds, so a write
\* outside it changes nothing here
WriteKey(keys, i, v) == [j \in DOMAIN keys |-> IF j = i THEN v ELSE keys[j]]
tnode_key_min(n) == ReadKey(n.keys, n.min_idx)
tnode_key_max(n) == ReadKey(n.keys, n.max_idx)

(***************************************************************************)
(* The caller's comparator (tests/t_balance.c __cmpfunc: the difference of *)
(* the two ints the key pointers address).  The int stored at a key        *)
(* address is the key value of the item it is embedded in.                 *)
(***************************************************************************)
\* the caller's second item with the key of item: another address, the same
\* int in it
CopyOf(item) == item + 100
KeyValue(t, key) ==
    IF key - t.key_offs > 100 THEN key - t.key_offs - 100
    ELSE key - t.key_offs
cmp_func(t, key1, key2) == KeyValue(t, key1) - KeyValue(t, key2)

(***************************************************************************)
(* allocate_ttree_node: a fresh address, header zeroed, key slots not      *)
(* written.  The allocator hands out the lowest free address.              *)
(***************************************************************************)
FreshAddr(h) ==
    CHOOSE a \in 1..(Cardinality(DOMAIN h) + 1) :
        a \notin DOMAIN h /\ \A b \in 1..(a - 1) : b \in DOMAIN h

allocate_ttree_node(t) ==
    [parent |-> NULL, successor |-> NULL,
     sides |-> [s \in 0..1 |-> NULL],
     min_idx |-> 0, max_idx |-> 0, bfc |-> 0, node_side |-> 0,
     keys |-> [i \in 0..(t.keys_per_tnode - 1) |-> Garbage]]

\* a free() that releases nothing
FreeNode_leaks(h, a) == h

\* free(): the address leaves the heap
FreeNode(h, a) == [b \in (DOMAIN h) \ {a} |-> h[b]]

(***************************************************************************)
(* lookup_inside_tnode: binary search in slots floor..ceil of node n.      *)
(***************************************************************************)
\* a binary search that reports the lower bound of its range as the slot
lookup_inside_tnode_at_floor(t, n, key, floor, ceil) ==
    [item |-> ttree_key2item(t, key), idx |-> floor]

\* a lookup_inside_tnode that never searches: a miss at the low bound
lookup_inside_tnode_unsearched(t, n, key, floor, ceil) ==
    [item |-> NULL, idx |-> floor]

RECURSIVE lookup_inside_tnode(_, _, _, _, _)
lookup_inside_tnode(t, n, key, floor, ceil) ==
    IF floor <= ceil
    THEN LET mid == (floor + ceil) \div 2
             cmp_res == cmp_func(t, key, ReadKey(n.keys, mid))
         IN  IF cmp_res < 0 THEN lookup_inside_tnode(t, n, key, floor, mid - 1)
             ELSE IF cmp_res > 0 THEN lookup_inside_tnode(t, n, key, mid + 1, ceil)
             ELSE [item |-> ttree_key2item(t, n.keys[mid]), idx |-> mid]
    ELSE [item |-> NULL, idx |-> floor]

(***************************************************************************)
(* increase_tnode_window / decrease_tnode_window: node n and index idx     *)
(* in, the changed node and index out.                                     *)
(***************************************************************************)
\* an increase_tnode_window that moves the bound and no key
increase_tnode_window_unshifted(t, n, idx) ==
    IF (t.keys_per_tnode - 1 - n.max_idx) > n.min_idx
    THEN [node |-> [n EXCEPT !.max_idx = Signed12(n.max_idx + 1)],
          idx |-> idx]
    ELSE [node |-> [n EXCEPT !.min_idx = Signed12(n.min_idx - 1)],
          idx |-> idx - 1]

\* an increase_tnode_window that grows the window to the right also when
\* both sides have the same number of free slots
increase_tnode_window_rightward(t, n, idx) ==
    IF (t.keys_per_tnode - 1 - n.max_idx) >= n.min_idx
    THEN LET mx == Signed12(n.max_idx + 1)
         IN  [node |-> [n EXCEPT !.max_idx = mx,
                                 !.keys = [i \in DOMAIN n.keys |->
                                             IF i >= idx /\ i <= mx
                                             THEN ReadKey(n.keys, i - 1)
                                             ELSE n.keys[i]]],
              idx |-> idx]
    ELSE LET mn == Signed12(n.min_idx - 1)
             nidx == idx - 1
         IN  [node |-> [n EXCEPT !.min_idx = mn,
                                 !.keys = [i \in DOMAIN n.keys |->
                                             IF i >= mn /\ i < nidx
                                             THEN ReadKey(n.keys, i + 1)
                                             ELSE n.keys[i]]],
              idx |-> nidx]

increase_tnode_window(t, n, idx) ==
    IF (t.keys_per_tnode - 1 - n.max_idx) > n.min_idx
    THEN LET mx == Signed12(n.max_idx + 1)
         IN  [node |-> [n EXCEPT !.max_idx = mx,
                                 !.keys = [i \in DOMAIN n.keys |->
                                             IF i >= idx /\ i <= mx
                                             THEN ReadKey(n.keys, i - 1)
                                             ELSE n.keys[i]]],
              idx |-> idx]
    ELSE LET mn == Signed12(n.min_idx - 1)
             nidx == idx - 1
         IN  [node |-> [n EXCEPT !.min_idx = mn,
                                 !.keys = [i \in DOMAIN n.keys |->
                                             IF i >= mn /\ i < nidx
                                             THEN ReadKey(n.keys, i + 1)
                                             ELSE n.keys[i]]],
              idx |-> nidx]

decrease_tnode_window(t, n, idx) ==
    IF (t.keys_per_tnode - 1 - n.max_idx) <= n.min_idx
    THEN LET mx == Signed12(n.max_idx - 1)
         IN  [node |-> [n EXCEPT !.max_idx = mx,
                                 !.keys = [i \in DOMAIN n.keys |->
                                             IF i >= idx /\ i <= mx
                                             THEN ReadKey(n.keys, i + 1)
                                             ELSE n.keys[i]]],
              idx |-> idx]
    ELSE LET mn == Signed12(n.min_idx + 1)
         IN  [node |-> [n EXCEPT !.min_idx = mn,
                                 !.keys = [i \in DOMAIN n.keys |->
                                             IF i <= idx /\ i >= mn
                                             THEN ReadKey(n.keys, i - 1)
                                             ELSE n.keys[i]]],
              idx |-> idx + 1]

(***************************************************************************)
(* ttree_cursor_open_on_node.  A cursor is [tnode, idx, side, state]; its  *)
(* ttree field is the one tree of the model.  seek: 0 start, 1 end.        *)
(***************************************************************************)
TNODE_SEEK_START == 0
TNODE_SEEK_END == 1

ttree_cursor_open_on_node(t, h, tnode, seek) ==
    IF tnode # NULL
    THEN [tnode |-> tnode,
          idx |-> IF seek = TNODE_SEEK_START THEN h[tnode].min_idx
                  ELSE h[tnode].max_idx,
          side |-> TNODE_BOUND, state |-> CURSOR_OPENED]
    ELSE [tnode |-> NULL, idx |-> first_tnode_idx(t),
          side |-> TNODE_BOUND, state |-> CURSOR_PENDING]

ttree_cursor_open(t, h) ==
    ttree_cursor_open_on_node(t, h, t.root, TNODE_SEEK_START)

(***************************************************************************)
(* ttree_lookup.  lookup_descent is the while loop: it compares the key    *)
(* with the minimum key of every node on the path.                         *)
(***************************************************************************)
RECURSIVE lookup_descent(_, _, _, _, _)
lookup_descent(t, h, n, key, marked_tn) ==
    LET cmp_res == cmp_func(t, key, tnode_key_min(h[n]))
        side == IF cmp_res < 0 THEN TNODE_LEFT
                ELSE IF cmp_res > 0 THEN TNODE_RIGHT ELSE TNODE_BOUND
        marked == IF cmp_res > 0 THEN n ELSE marked_tn
    IN  IF cmp_res = 0
        THEN [hit |-> TRUE, target |-> n, marked_tn |-> marked_tn,
              side |-> TNODE_BOUND, cmp_res |-> cmp_res]
        ELSE IF h[n].sides[side] = NULL
        THEN [hit |-> FALSE, target |-> n, marked_tn |-> marked,
              side |-> side, cmp_res |-> cmp_res]
        ELSE lookup_descent(t, h, h[n].sides[side], key, marked)

\* the part of ttree_lookup after its while loop; d is what the loop left
lookup_result(t, h, key, d) ==
    LET target == h[d.target]
    IN  IF d.hit
        THEN [item |-> ttree_key2item(t, tnode_key_min(target)),
              cursor |-> [tnode |-> d.target, idx |-> target.min_idx,
                          side |-> TNODE_BOUND, state |-> CURSOR_OPENED]]
        ELSE IF d.marked_tn # NULL
                /\ cmp_func(t, key, tnode_key_max(h[d.marked_tn])) <= 0
        THEN LET m == h[d.marked_tn]
                 c == cmp_func(t, key, tnode_key_max(m))
             IN  IF c = 0
                 THEN [item |-> ttree_key2item(t, tnode_key_max(m)),
                       cursor |-> [tnode |-> d.marked_tn, idx |-> m.max_idx,
                                   side |-> TNODE_BOUND,
                                   state |-> CURSOR_OPENED]]
                 ELSE LET r == lookup_inside_tnode(t, m, key, m.min_idx + 1,
                                                   m.max_idx - 1)
                      IN  [item |-> r.item,
                           cursor |-> [tnode |-> d.marked_tn, idx |-> r.idx,
                                       side |-> TNODE_BOUND,
                                       state |-> IF r.item # NULL
                                                 THEN CURSOR_OPENED
                                                 ELSE CURSOR_PENDING]]
        ELSE IF ~tnode_is_full(t, target)
        THEN [item |-> NULL,
              cursor |-> [tnode |-> d.target,
                          idx |-> IF (d.marked_tn # d.target) \/ (d.cmp_res < 0)
                                  THEN target.min_idx
                                  ELSE target.max_idx + 1,
                          side |-> TNODE_BOUND, state |-> CURSOR_PENDING]]
        ELSE [item |-> NULL,
              cursor |-> [tnode |-> d.target, idx |-> first_tnode_idx(t),
                          side |-> d.side, state |-> CURSOR_PENDING]]

\* the item found (or NULL) and the cursor ttree_lookup leaves
ttree_lookup(t, h, key) ==
    IF t.root = NULL
    THEN [item |-> NULL,
          cursor |-> [tnode |-> NULL, idx |-> first_tnode_idx(t),
                      side |-> TNODE_BOUND, state |-> CURSOR_PENDING]]
    ELSE lookup_result(t, h, key, lookup_descent(t, h, t.root, key, NULL))

(***************************************************************************)
(* __rotate_single: heap h, subtree root p and side in; the new heap and   *)
(* the new subtree root out.                                               *)
(***************************************************************************)
__rotate_single(h, p, side) ==
    LET opside == opposite_side(side)
        s == h[p].sides[side]
        c == h[s].sides[opside]
        pp == h[p].parent
        h1 == [h EXCEPT ![s] = [tnode_set_side(h[s], tnode_get_side(h[p]))
                                    EXCEPT !.sides[opside] = p, !.parent = pp],
                        ![p] = [tnode_set_side(h[p], opside)
                                    EXCEPT !.sides[side] = c, !.parent = s]]
        h2 == IF c # NULL
              THEN [h1 EXCEPT ![c] = [tnode_set_side(h1[c], side)
                                          EXCEPT !.parent = p]]
              ELSE h1
        h3 == IF pp # NULL
              THEN IF h2[pp].sides[side] = p
                   THEN [h2 EXCEPT ![pp].sides[side] = s]
                   ELSE [h2 EXCEPT ![pp].sides[opside] = s]
              ELSE h2
    IN  [h |-> h3, target |-> s]

\* the balance factor rotate_single / rotate_double give a node that is no
\* longer internal: !!right - !!left
LeafBfc(n) ==
    BoolInt(n.sides[TNODE_RIGHT] # NULL) - BoolInt(n.sides[TNODE_LEFT] # NULL)

\* the balance factors rotate_single sets once __rotate_single returned r
rotate_single_bfc(r, side) ==
    LET tg == r.target
        n == r.h[tg].sides[opposite_side(side)]
        nb == IF is_internal_node(r.h[n])
              THEN (IF r.h[r.h[n].parent].bfc # side2bfc(side)
                    THEN side2bfc(side) ELSE 0)
              ELSE LeafBfc(r.h[n])
        h1 == [r.h EXCEPT ![n].bfc = nb]
        h2 == [h1 EXCEPT ![tg].bfc =
                   Signed4(h1[tg].bfc + side2bfc(opposite_side(side)))]
    IN  [h |-> h2, target |-> tg]

\* a single rotation that leaves the balance factors as they were
rotate_single_stale_bfc(h, p, side) == __rotate_single(h, p, side)

rotate_single(h, p, side) ==
    rotate_single_bfc(__rotate_single(h, p, side), side)

\* the first half of rotate_double: r1 is what __rotate_single(&n, opside)
\* returned; the lower node's balance factor is set and n becomes n->parent
rotate_double_low(r1, side) ==
    LET opside == opposite_side(side)
        n1 == r1.target
        low == r1.h[n1].sides[side]
        lb == IF is_internal_node(r1.h[low])
              THEN (IF r1.h[n1].bfc = side2bfc(opside) THEN side2bfc(side) ELSE 0)
              ELSE LeafBfc(r1.h[low])
        h1 == [r1.h EXCEPT ![low].bfc = lb]
    IN  [h |-> h1, n |-> h1[n1].parent]

\* the second half: r2 is what __rotate_single(target, side) returned
rotate_double_top(n, r2, side) ==
    LET opside == opposite_side(side)
        tg == r2.target
        nb == IF is_internal_node(r2.h[n])
              THEN (IF r2.h[tg].bfc = side2bfc(side) THEN side2bfc(opside) ELSE 0)
              ELSE LeafBfc(r2.h[n])
        h2 == [r2.h EXCEPT ![n].bfc = nb]
        h3 == [h2 EXCEPT ![tg].bfc = 0]
    IN  [h |-> h3, target |-> tg]

\* "rotate again": m is the heap and the node n the first half left
rotate_double_again(m, p, side) ==
    rotate_double_top(m.n, __rotate_single(m.h, p, side), side)

rotate_double(h, p, side) ==
    rotate_double_again(
        rotate_double_low(
            __rotate_single(h, h[p].sides[side], opposite_side(side)), side),
        p, side)

(***************************************************************************)
(* rebalance.  t, h: tree and heap; node: the unbalanced subtree root;     *)
(* hasCursor: whether the caller passed a cursor (fixup_after_deletion     *)
(* passes NULL); cursor: that cursor.  KeyMigration is the body of the     *)
(* `if` that follows rotate_double.                                        *)
(***************************************************************************)
\* memcpy(dst + offs, src + from, cnt slots)
CopyKeys(dst, offs, src, from, cnt) ==
    [i \in DOMAIN dst |-> IF i >= offs /\ i < offs + cnt
                          THEN ReadKey(src, from + (i - offs))
                          ELSE dst[i]]

KeyMigration(t, h, node, hasCursor, cursor) ==
    LET T == h[node]
        right == T.sides[TNODE_RIGHT]
        left == T.sides[TNODE_LEFT]
        fromRight == tnode_num_keys(h[right]) >= tnode_num_keys(h[left])
        n == IF fromRight THEN right ELSE left
        D == h[n]
        nkeys == tnode_num_keys(D)
        M == t.keys_per_tnode
        \* the new subtree root: its single key moves to an end of the array
        T1 == IF fromRight
              THEN [T EXCEPT !.keys = WriteKey(@, 0, T.keys[T.min_idx]),
                             !.min_idx = 0,
                             !.max_idx = Signed12(nkeys - 1)]
              ELSE [T EXCEPT !.keys = WriteKey(@, M - 1, T.keys[T.min_idx]),
                             !.min_idx = Signed12(M - nkeys),
                             !.max_idx = Signed12(M - 1)]
        offs == IF fromRight THEN 1 ELSE M - nkeys
        \* the cursor follows the key it names
        cursor1 ==
            IF hasCursor /\ cursor.tnode = n
            THEN IF fromRight
                 THEN (IF cursor.idx < D.max_idx
                       THEN [cursor EXCEPT !.tnode = node,
                                !.idx = T1.min_idx + (cursor.idx - D.min_idx + 1)]
                       ELSE [cursor EXCEPT !.idx = first_tnode_idx(t)])
                 ELSE (IF cursor.idx > D.min_idx
                       THEN [cursor EXCEPT !.tnode = node,
                                !.idx = T1.min_idx + (cursor.idx - D.min_idx)]
                       ELSE [cursor EXCEPT !.idx = first_tnode_idx(t)])
            ELSE cursor
        \* n->max_idx = n->min_idx++ is reached only on the left-donor path
        \* with a cursor: `goto no_cursor` jumps over it
        D1 == IF ~fromRight /\ hasCursor
              THEN [D EXCEPT !.max_idx = D.min_idx,
                             !.min_idx = Signed12(D.min_idx + 1)]
              ELSE D
        \* no_cursor:
        T2 == [T1 EXCEPT !.keys = CopyKeys(T1.keys, offs, D1.keys,
                                           D1.min_idx, nkeys - 1)]
        D2 == [D1 EXCEPT !.keys = WriteKey(@, first_tnode_idx(t), ReadKey(D1.keys, D1.max_idx)),
                         !.min_idx = first_tnode_idx(t),
                         !.max_idx = first_tnode_idx(t)]
    IN  [h |-> [h EXCEPT ![node] = T2, ![n] = D2], cursor |-> cursor1]

\* an out: that leaves the tree root where it was
rebalance_out_keeps_root(t, tg, mig) ==
    [t |-> t, h |-> mig.h, node |-> tg, cursor |-> mig.cursor]

\* out: the tree root follows the rotation
rebalance_out(t, tg, mig) ==
    [t |-> IF mig.h[t.root].parent # NULL THEN [t EXCEPT !.root = tg] ELSE t,
     h |-> mig.h, node |-> tg, cursor |-> mig.cursor]

\* node and its two children on heap h
Family(h, node) ==
    [a \in {node, h[node].sides[TNODE_LEFT], h[node].sides[TNODE_RIGHT]} |->
        h[a]]

\* the tree with one more entry in its log: the key migration into node
\* that took heap pre to heap post and the cursor handed in to cursor moved
Logged(t, pre, post, node, hasCursor, cursor, moved) ==
    [t EXCEPT !.migrations =
        Append(@, [node |-> node, hasCursor |-> hasCursor,
                   pre |-> Family(pre, node), post |-> Family(post, node),
                   cursor |-> cursor, moved |-> moved])]

\* the tree with an empty log
Unlogged(t) == [t EXCEPT !.migrations = << >>]

\* rebalance from the key migration mig on
rebalance_migrated(t, rot, hasCursor, cursor, mig) ==
    rebalance_out(Logged(t, rot.h, mig.h, rot.target, hasCursor,
                         cursor, mig.cursor),
                  rot.target, mig)

\* rebalance after its rotation rot: the special case of a double rotation
rebalance_migrate(t, sum, rot, hasCursor, cursor) ==
    IF sum < 2
       /\ tnode_num_keys(rot.h[rot.target]) = 1
       /\ is_half_leaf(rot.h[rot.h[rot.target].sides[TNODE_LEFT]])
       /\ is_half_leaf(rot.h[rot.h[rot.target].sides[TNODE_RIGHT]])
    THEN rebalance_migrated(t, rot, hasCursor, cursor,
             KeyMigration(t, rot.h, rot.target, hasCursor, cursor))
    ELSE rebalance_out(t, rot.target, [h |-> rot.h, cursor |-> cursor])

rebalance(t, h, node, hasCursor, cursor) ==
    LET lh == left_heavy(h[node])
        side == opposite_side(lh)
        sum == Abs(h[node].bfc + h[h[node].sides[side]].bfc)
    IN  rebalance_migrate(t, sum,
            IF sum >= 2 THEN rotate_single(h, node, side)
            ELSE rotate_double(h, node, side),
            hasCursor, cursor)

(***************************************************************************)
(* Successor chain upkeep.                                                 *)
(***************************************************************************)
\* the for loop of __add_successor: the first node from `node` upwards
\* whose successor is `old` gets successor `new`
RECURSIVE RelinkSuccessorUp(_, _, _, _)
RelinkSuccessorUp(h, node, old, new) ==
    IF node = NULL THEN h
    ELSE IF h[node].successor = old
    THEN [h EXCEPT ![node].successor = new]
    ELSE RelinkSuccessorUp(h, h[node].parent, old, new)

__add_successor(h, n) ==
    LET p == h[n].parent
    IN  IF tnode_get_side(h[n]) = TNODE_RIGHT
        THEN [h EXCEPT ![n].successor = h[p].successor,
                       ![p].successor = n]
        ELSE LET h1 == [h EXCEPT ![n].successor = p]
             IN  IF tnode_get_side(h1[p]) = TNODE_RIGHT
                 THEN [h1 EXCEPT ![h1[p].parent].successor = n]
                 ELSE IF tnode_get_side(h1[p]) = TNODE_LEFT
                 THEN RelinkSuccessorUp(h1, h1[p].parent, p, n)
                 ELSE h1

__remove_successor(h, n) ==
    LET p == h[n].parent
    IN  IF tnode_get_side(h[n]) = TNODE_RIGHT
        THEN [h EXCEPT ![p].successor = h[n].successor]
        ELSE IF tnode_get_side(h[p]) = TNODE_RIGHT
        THEN [h EXCEPT ![h[p].parent].successor = p]
        ELSE RelinkSuccessorUp(h, p, n, p)

(***************************************************************************)
(* fixup_after_insertion: InsertionWalk is its while loop, entered with    *)
(* node already advanced to the parent.                                    *)
(***************************************************************************)
\* what the fixup loops hand back of rebalance's result r
Rebalanced(r) == [t |-> r.t, h |-> r.h, cursor |-> r.cursor]

RECURSIVE InsertionWalk(_, _, _, _, _)
InsertionWalk(t, h, node, bfc_delta, cursor) ==
    IF node = NULL THEN [t |-> t, h |-> h, cursor |-> cursor]
    ELSE LET h1 == [h EXCEPT ![node].bfc = Signed4(h[node].bfc + bfc_delta)]
         IN  IF h1[node].bfc = 0
             THEN [t |-> t, h |-> h1, cursor |-> cursor]
             ELSE IF subtree_is_unbalanced(h1[node])
             THEN Rebalanced(rebalance(t, h1, node, TRUE, cursor))
             ELSE InsertionWalk(t, h1, h1[node].parent,
                                side2bfc(tnode_get_side(h1[node])), cursor)

fixup_after_insertion(t, h, n, cursor) ==
    LET bfc_delta == side2bfc(tnode_get_side(h[n]))
        h1 == __add_successor(h, n)
    IN  InsertionWalk(t, h1, h1[n].parent, bfc_delta, cursor)

(***************************************************************************)
(* fixup_after_deletion: DeletionWalk is its while loop.  The caller       *)
(* (ttree_delete_at_cursor) passes cursor NULL.                            *)
(***************************************************************************)
RECURSIVE DeletionWalk(_, _, _, _, _, _)
\* the loop after rebalance returned r: it ends if the subtree kept its
\* height, and goes on from the parent with bfc_delta otherwise
DeletionWalkOn(r, bfc_delta, hasCursor) ==
    IF r.h[r.node].bfc # 0
    THEN Rebalanced(r)
    ELSE DeletionWalk(r.t, r.h, r.h[r.node].parent, bfc_delta,
                      hasCursor, r.cursor)

DeletionWalk(t, h, node, bfc_delta, hasCursor, cursor) ==
    IF node = NULL THEN [t |-> t, h |-> h, cursor |-> cursor]
    ELSE LET h1 == [h EXCEPT ![node].bfc = Signed4(h[node].bfc - bfc_delta)]
         IN  IF h1[node].bfc + bfc_delta = 0
             THEN [t |-> t, h |-> h1, cursor |-> cursor]
             ELSE IF subtree_is_unbalanced(h1[node])
             THEN DeletionWalkOn(rebalance(t, h1, node, hasCursor, cursor),
                                 side2bfc(tnode_get_side(h1[node])),
                                 hasCursor)
             ELSE DeletionWalk(t, h1, h1[node].parent,
                               side2bfc(tnode_get_side(h1[node])),
                               hasCursor, cursor)

fixup_after_deletion(t, h, n, hasCursor, cursor) ==
    LET node == h[n].parent
        bfc_delta == side2bfc(tnode_get_side(h[n]))
        h1 == __remove_successor(h, n)
    IN  DeletionWalk(t, h1, node, bfc_delta, hasCursor, cursor)

(***************************************************************************)
(* ttree_insert_at_cursor.  Returns the tree, the heap and the caller's    *)
(* cursor.  After a bound insertion into a full node the function goes on  *)
(* with a copy (tmp_cursor); the caller's cursor keeps what it held at the *)
(* moment of the copy.                                                     *)
(***************************************************************************)
\* create_new_node: a new leaf under at_node on side cur.side
CreateNewNode(t, h, at_node, cur, key) ==
    LET a == FreshAddr(h)
        n0 == allocate_ttree_node(t)
        n1 == tnode_set_side(
                  [n0 EXCEPT !.keys = WriteKey(@, cur.idx, key),
                             !.min_idx = Signed12(cur.idx),
                             !.max_idx = Signed12(cur.idx),
                             !.parent = at_node], cur.side)
        h1 == [b \in (DOMAIN h) \cup {a} |->
                  IF b = a THEN n1
                  ELSE IF b = at_node THEN [h[b] EXCEPT !.sides[cur.side] = a]
                  ELSE h[b]]
        cur1 == [cur EXCEPT !.tnode = a, !.state = CURSOR_OPENED]
    IN  fixup_after_insertion(t, h1, a, cur1)

ttree_insert_at_cursor(t, h, cursor, item) ==
    LET key == ttree_item2key(t, item)
        n == cursor.tnode
    IN  IF t.root = NULL
        THEN LET a == FreshAddr(h)
                 n0 == allocate_ttree_node(t)
                 n1 == tnode_set_side(
                           [n0 EXCEPT !.keys = WriteKey(@, first_tnode_idx(t), key),
                                      !.min_idx = first_tnode_idx(t),
                                      !.max_idx = first_tnode_idx(t)],
                           TNODE_ROOT)
                 h1 == [b \in (DOMAIN h) \cup {a} |->
                           IF b = a THEN n1 ELSE h[b]]
                 t1 == [t EXCEPT !.root = a]
             IN  [t |-> t1, h |-> h1,
                  cursor |-> ttree_cursor_open_on_node(t1, h1, a,
                                                       TNODE_SEEK_START)]
        ELSE IF cursor.side = TNODE_BOUND
        THEN IF tnode_is_full(t, h[n])
             THEN LET tmp == ReadKey(h[n].keys, h[n].max_idx)
                      nd == [h[n] EXCEPT !.max_idx = Signed12(h[n].max_idx - 1)]
                      w == increase_tnode_window(t, nd, cursor.idx)
                      hn == [h EXCEPT ![n] = [w.node EXCEPT !.keys = WriteKey(@, w.idx, key)]]
                      \* the caller's cursor, as copied into tmp_cursor
                      caller == [cursor EXCEPT !.idx = w.idx]
                      succ == hn[n].successor
                  IN  IF succ = NULL \/ hn[n].sides[TNODE_RIGHT] = NULL
                      THEN [CreateNewNode(t, hn, n,
                                [caller EXCEPT !.side = TNODE_RIGHT,
                                               !.idx = first_tnode_idx(t)],
                                tmp)
                            EXCEPT !.cursor = caller]
                      ELSE IF tnode_is_full(t, hn[succ])
                      THEN [CreateNewNode(t, hn, succ,
                                [caller EXCEPT !.side = TNODE_LEFT,
                                               !.idx = first_tnode_idx(t)],
                                tmp)
                            EXCEPT !.cursor = caller]
                      ELSE LET w2 == increase_tnode_window(t, hn[succ],
                                                           hn[succ].min_idx)
                           IN  [t |-> t,
                                h |-> [hn EXCEPT ![succ] =
                                          [w2.node EXCEPT !.keys = WriteKey(@, w2.idx, tmp)]],
                                cursor |-> caller]
             ELSE LET w == increase_tnode_window(t, h[n], cursor.idx)
                  IN  [t |-> t,
                       h |-> [h EXCEPT ![n] = [w.node EXCEPT !.keys = WriteKey(@, w.idx, key)]],
                       cursor |-> [cursor EXCEPT !.idx = w.idx,
                                                 !.state = CURSOR_OPENED]]
        ELSE CreateNewNode(t, h, n, cursor, key)

(***************************************************************************)
(* ttree_insert: 0, or -1 for a duplicate key in a unique tree.            *)
(***************************************************************************)
\* the tree and the heap of r, with return value ret
Returning(r, ret) == [t |-> r.t, h |-> r.h, ret |-> ret]

\* ttree_insert once ttree_lookup returned l
insert_looked_up(t, h, item, l) ==
    IF l.item # NULL /\ t.keys_are_unique
    THEN [t |-> t, h |-> h, ret |-> -1]
    ELSE Returning(ttree_insert_at_cursor(t, h, l.cursor, item), 0)

ttree_insert(t, h, item) ==
    insert_looked_up(t, h, item,
                     ttree_lookup(t, h, ttree_item2key(t, item)))

(***************************************************************************)
(* ttree_delete_at_cursor.  Returns the tree, the heap, the caller's       *)
(* cursor and the removed item.  dir is the direction in which the C       *)
(* library's memcpy walks: the merge with a right leaf calls memcpy on     *)
(* ranges that may overlap, where the result depends on it.                *)
(***************************************************************************)
MemcpyDirs == {"forward", "backward"}

\* memcpy(keys + to, keys + from, cnt slots) inside one array, slot by slot
RECURSIVE MemcpyWithin(_, _, _, _, _, _)
MemcpyWithin(keys, to, from, cnt, done, dir) ==
    IF done >= cnt THEN keys
    ELSE LET j == IF dir = "forward" THEN done ELSE cnt - 1 - done
         IN  MemcpyWithin(WriteKey(keys, to + j, ReadKey(keys, from + j)),
                          to, from, cnt, done + 1, dir)

\* the ranges of such a memcpy overlap: only then its direction shows
MemcpyOverlaps(to, from, cnt) == to # from /\ Abs(to - from) < cnt

\* the half-leaf tn takes all keys of its only child, the leaf lf
MergeLeaf(t, tn, lf, cursorOnTnode, cursor, dir) ==
    LET M == t.keys_per_tnode
        items == tnode_num_keys(lf)
    IN  IF tnode_get_side(lf) = TNODE_RIGHT
        THEN LET diff == (M - tn.max_idx - items) - 1
                 sh == IF diff < 0
                       THEN [tn EXCEPT
                               !.keys = MemcpyWithin(tn.keys, tn.min_idx + diff,
                                            tn.min_idx, tnode_num_keys(tn), 0, dir),
                               !.min_idx = Signed12(tn.min_idx + diff),
                               !.max_idx = Signed12(tn.max_idx + diff)]
                       ELSE tn
                 cur == IF diff < 0 /\ cursorOnTnode
                        THEN [cursor EXCEPT !.idx = cursor.idx + diff]
                        ELSE cursor
             IN  [node |-> [sh EXCEPT
                              !.keys = CopyKeys(sh.keys, sh.max_idx + 1, lf.keys,
                                                lf.min_idx, items),
                              !.max_idx = Signed12(sh.max_idx + items)],
                  cursor |-> cur,
                  overlap |-> diff < 0
                              /\ MemcpyOverlaps(tn.min_idx + diff, tn.min_idx,
                                                tnode_num_keys(tn))]
        ELSE LET diff == tn.min_idx - items
                 sh == IF diff < 0
                       THEN [tn EXCEPT
                               !.keys = [i \in DOMAIN tn.keys |->
                                           IF i >= tn.min_idx - diff
                                              /\ i <= tn.max_idx - diff
                                           THEN ReadKey(tn.keys, i + diff)
                                           ELSE tn.keys[i]],
                               !.min_idx = Signed12(tn.min_idx - diff),
                               !.max_idx = Signed12(tn.max_idx - diff)]
                       ELSE tn
                 cur == IF diff < 0 /\ cursorOnTnode
                        THEN [cursor EXCEPT !.idx = cursor.idx - diff]
                        ELSE cursor
             IN  [node |-> [sh EXCEPT
                              !.keys = CopyKeys(sh.keys, sh.min_idx - items,
                                                lf.keys, lf.min_idx, items),
                              !.min_idx = Signed12(sh.min_idx - items)],
                  cursor |-> cur, overlap |-> FALSE]

\* free(tnode) after fixup_after_deletion returned f
FreeFixedUp(f, tnode, cursor, ret, overlap) ==
    [t |-> f.t, h |-> FreeNode(f.h, tnode),
     cursor |-> cursor, ret |-> ret, overlap |-> overlap]

\* the tail of ttree_delete_at_cursor: tnode is removed if it is empty
RemoveIfEmpty(t, h, tnode, cursor, ret, overlap) ==
    IF ~tnode_is_empty(h[tnode])
    THEN [t |-> t, h |-> h, cursor |-> cursor, ret |-> ret,
          overlap |-> overlap]
    ELSE LET n == h[tnode].parent
         IN  IF n = NULL
             THEN [t |-> [t EXCEPT !.root = NULL], h |-> FreeNode(h, tnode),
                   cursor |-> cursor, ret |-> ret, overlap |-> overlap]
             ELSE FreeFixedUp(
                      fixup_after_deletion(t,
                          [h EXCEPT ![n].sides[tnode_get_side(h[tnode])] = NULL],
                          tnode, FALSE, cursor),
                      tnode, cursor, ret, overlap)

\* the leaf n is emptied into tnode: m is what MergeLeaf made of them
Merged(t, h, tnode, n, m, ret) ==
    RemoveIfEmpty(t,
                  [h EXCEPT ![tnode] = m.node,
                            ![n] = [h[n] EXCEPT !.min_idx = 1, !.max_idx = 0]],
                  n, m.cursor, ret, m.overlap)

\* the half-leaf step of ttree_delete_at_cursor and what follows it
MergeStep(t, h, tnode, cursor, ret, dir) ==
    IF is_leaf_node(h[tnode])
    THEN RemoveIfEmpty(t, h, tnode, cursor, ret, FALSE)
    ELSE LET n == IF h[tnode].sides[TNODE_LEFT] # NULL
                  THEN h[tnode].sides[TNODE_LEFT]
                  ELSE h[tnode].sides[TNODE_RIGHT]
             items == tnode_num_keys(h[n])
         IN  IF items > t.keys_per_tnode - tnode_num_keys(h[tnode])
             THEN [t |-> t, h |-> h, cursor |-> cursor, ret |-> ret,
                   overlap |-> FALSE]
             ELSE Merged(t, h, tnode, n,
                         MergeLeaf(t, h[tnode], h[n],
                                   cursor.tnode = tnode, cursor, dir),
                         ret)

ttree_delete_at_cursor(t, h, cursor, dir) ==
    LET tnode == cursor.tnode
        ret == ttree_key2item(t, ReadKey(h[tnode].keys, cursor.idx))
        w == decrease_tnode_window(t, h[tnode], cursor.idx)
        cur1 == [cursor EXCEPT !.state = CURSOR_CLOSED,
                               !.idx = IF w.idx > w.node.max_idx
                                       THEN w.node.max_idx ELSE w.idx]
        h1 == [h EXCEPT ![tnode] = w.node]
    IN  IF tnode_num_keys(w.node) > min_tnode_entries(t)
        THEN [t |-> t, h |-> h1, cursor |-> cur1, ret |-> ret,
              overlap |-> FALSE]
        ELSE IF is_internal_node(w.node)
        THEN LET n == w.node.successor
                 w2 == increase_tnode_window(t, w.node, w.node.max_idx + 1)
                 tn2 == [w2.node EXCEPT
                           !.keys = WriteKey(@, w2.idx, ReadKey(h1[n].keys, h1[n].min_idx))]
                 h2 == [h1 EXCEPT ![tnode] = tn2,
                                  ![n].min_idx = Signed12(h1[n].min_idx + 1)]
                 cur2 == IF cur1.idx > tn2.max_idx
                         THEN [cur1 EXCEPT !.idx = tn2.max_idx] ELSE cur1
             IN  IF ~tnode_is_empty(h2[n]) /\ is_leaf_node(h2[n])
                 THEN [t |-> t, h |-> h2, cursor |-> cur2, ret |-> ret,
                       overlap |-> FALSE]
                 ELSE MergeStep(t, h2, n, cur2, ret, dir)
        ELSE MergeStep(t, h1, tnode, cur1, ret, dir)

(***************************************************************************)
(* ttree_delete: the removed item, or NULL when the key is not found.      *)
(***************************************************************************)
\* what ttree_delete returns of ttree_delete_at_cursor's result r
Deleted(r, item) ==
    [t |-> r.t, h |-> r.h, ret |-> item, overlap |-> r.overlap]

\* ttree_delete once ttree_lookup returned l
delete_looked_up(t, h, dir, l) ==
    IF l.item = NULL
    THEN [t |-> t, h |-> h, ret |-> NULL, overlap |-> FALSE]
    ELSE Deleted(ttree_delete_at_cursor(t, h, l.cursor, dir), l.item)

\* a ttree_delete that finds no key
ttree_delete_misses(t, h, key, dir) ==
    [t |-> t, h |-> h, ret |-> NULL, overlap |-> FALSE]

ttree_delete(t, h, key, dir) ==
    delete_looked_up(t, h, dir, ttree_lookup(t, h, key))

(***************************************************************************)
(* ttree_replace.  It calls ttree_lookup(ttree, &cursor, key): ttree_lookup *)
(* takes the address of the local cursor for the key and the caller's key  *)
(* for the cursor.  The comparator reads the int at &cursor, which nothing *)
(* has written, the cursor found is written over the caller's key, and the *)
(* slot assigned is the one the unwritten local cursor names.  junk is     *)
(* what the local cursor happens to hold: the key address whose int equals *)
(* the int read at &cursor, its tnode (NULL: any address outside the tree) *)
(* and its idx.                                                            *)
(***************************************************************************)
\* ttree_replace once ttree_lookup returned l
replace_looked_up(t, h, new_item, junk, l) ==
    IF l.item = NULL
    THEN [h |-> h, ret |-> -1]
    ELSE [h |-> IF junk.tnode \in DOMAIN h
                THEN [h EXCEPT ![junk.tnode].keys =
                         WriteKey(@, junk.idx, ttree_item2key(t, new_item))]
                ELSE h,
          ret |-> 0]

ttree_replace(t, h, key, new_item, junk) ==
    replace_looked_up(t, h, new_item, junk, ttree_lookup(t, h, junk.key))

(***************************************************************************)
(* Cursor movement: each returns the cursor and the return code.           *)
(***************************************************************************)
RECURSIVE __tnode_sidemost(_, _, _)
__tnode_sidemost(h, tnode, side) ==
    IF tnode = NULL THEN NULL
    ELSE IF h[tnode].sides[side] = NULL THEN tnode
    ELSE __tnode_sidemost(h, h[tnode].sides[side], side)

ttree_node_leftmost(h, tnode) == __tnode_sidemost(h, tnode, TNODE_LEFT)
ttree_node_rightmost(h, tnode) == __tnode_sidemost(h, tnode, TNODE_RIGHT)

__tnode_get_bound(h, tnode, side) ==
    IF tnode = NULL THEN NULL
    ELSE IF h[tnode].sides[side] = NULL THEN NULL
    ELSE __tnode_sidemost(h, h[tnode].sides[side], opposite_side(side))

ttree_node_glb(h, tnode) == __tnode_get_bound(h, tnode, TNODE_LEFT)

ttree_cursor_first(t, h, cursor) ==
    LET tnode == ttree_node_leftmost(h, t.root)
    IN  IF tnode = NULL
        THEN IF t.root # NULL
             THEN [cursor |-> [tnode |-> t.root, idx |-> h[t.root].min_idx,
                               side |-> TNODE_BOUND, state |-> CURSOR_OPENED],
                   ret |-> 0]
             ELSE [cursor |-> [tnode |-> NULL, idx |-> first_tnode_idx(t),
                               side |-> TNODE_BOUND, state |-> CURSOR_PENDING],
                   ret |-> -1]
        ELSE [cursor |-> [tnode |-> tnode, idx |-> h[tnode].min_idx,
                          side |-> TNODE_BOUND, state |-> CURSOR_OPENED],
              ret |-> 0]

ttree_cursor_last(t, h, cursor) ==
    LET tnode == ttree_node_rightmost(h, t.root)
    IN  IF tnode = NULL
        THEN IF t.root # NULL
             THEN [cursor |-> [tnode |-> t.root, idx |-> h[t.root].max_idx,
                               side |-> TNODE_BOUND, state |-> CURSOR_OPENED],
                   ret |-> 0]
             ELSE [cursor |-> [tnode |-> NULL, idx |-> first_tnode_idx(t),
                               side |-> TNODE_BOUND, state |-> CURSOR_PENDING],
                   ret |-> -1]
        ELSE [cursor |-> [tnode |-> tnode, idx |-> h[tnode].max_idx,
                          side |-> TNODE_BOUND, state |-> CURSOR_OPENED],
              ret |-> 0]

\* a ttree_cursor_next that takes every cursor that is not opened for a
\* pending one
ttree_cursor_next_reopens(h, cursor) ==
    [cursor |-> [cursor EXCEPT !.state = CURSOR_OPENED, !.side = TNODE_BOUND],
     ret |-> TCSR_OK]

\* the part of ttree_cursor_next after the PENDING block
NextOpened(h, cursor) ==
    LET c == [cursor EXCEPT !.side = TNODE_BOUND]
    IN  IF c.idx = h[c.tnode].max_idx
        THEN IF h[c.tnode].successor # NULL
             THEN [cursor |-> [c EXCEPT !.tnode = h[c.tnode].successor,
                                 !.idx = h[h[c.tnode].successor].min_idx],
                   ret |-> TCSR_OK]
             ELSE [cursor |-> c, ret |-> TCSR_END]
        ELSE [cursor |-> [c EXCEPT !.idx = c.idx + 1], ret |-> TCSR_OK]

ttree_cursor_next(h, cursor) ==
    IF cursor.state = CURSOR_CLOSED
    THEN [cursor |-> cursor, ret |-> TCSR_END]
    ELSE IF cursor.state = CURSOR_PENDING
    THEN LET c == [cursor EXCEPT !.state = CURSOR_OPENED]
             tn == h[c.tnode]
         IN  IF c.side = TNODE_LEFT \/ c.idx < tn.min_idx
             THEN [cursor |-> [c EXCEPT !.side = TNODE_BOUND,
                                        !.idx = tn.min_idx],
                   ret |-> TCSR_OK]
             ELSE IF c.side = TNODE_BOUND
             THEN [cursor |-> c, ret |-> TCSR_OK]
             ELSE IF c.side = TNODE_RIGHT \/ c.idx > tn.max_idx
             THEN NextOpened(h, [c EXCEPT !.idx = tn.max_idx])
             ELSE NextOpened(h, c)
    ELSE NextOpened(h, cursor)

\* the for loop of ttree_cursor_prev: climb while n is a left child
RECURSIVE ClimbWhileLeft(_, _)
ClimbWhileLeft(h, n) ==
    IF h[n].parent # NULL /\ h[h[n].parent].sides[TNODE_LEFT] = n
    THEN ClimbWhileLeft(h, h[n].parent)
    ELSE n

\* the part of ttree_cursor_prev after the PENDING block
PrevOpened(h, cursor) ==
    LET c == [cursor EXCEPT !.side = TNODE_BOUND]
    IN  IF c.idx = h[c.tnode].min_idx
        THEN LET g == ttree_node_glb(h, c.tnode)
                 top == ClimbWhileLeft(h, c.tnode)
                 n == IF g # NULL THEN g ELSE h[top].parent
             IN  IF n = NULL
                 THEN [cursor |-> c, ret |-> TCSR_END]
                 ELSE [cursor |-> [c EXCEPT !.tnode = n, !.idx = h[n].max_idx],
                       ret |-> TCSR_OK]
        ELSE [cursor |-> [c EXCEPT !.state = CURSOR_OPENED, !.idx = c.idx - 1],
              ret |-> TCSR_OK]

ttree_cursor_prev(h, cursor) ==
    IF cursor.state = CURSOR_CLOSED
    THEN [cursor |-> cursor, ret |-> TCSR_END]
    ELSE IF cursor.state = CURSOR_PENDING
    THEN LET c == [cursor EXCEPT !.state = CURSOR_OPENED]
             tn == h[c.tnode]
         IN  IF c.side = TNODE_RIGHT \/ c.idx > tn.max_idx
             THEN [cursor |-> [c EXCEPT !.side = TNODE_BOUND,
                                        !.idx = tn.max_idx],
                   ret |-> TCSR_OK]
             ELSE IF c.side = TNODE_LEFT \/ c.idx < tn.min_idx
             THEN PrevOpened(h, [c EXCEPT !.side = TNODE_BOUND,
                                          !.idx = tn.min_idx])
             ELSE PrevOpened(h, c)
    ELSE PrevOpened(h, cursor)

\* ttree_key_from_cursor / ttree_item_from_cursor
ttree_key_from_cursor(h, cursor) ==
    IF cursor.state = CURSOR_OPENED
    THEN ReadKey(h[cursor.tnode].keys, cursor.idx)
    ELSE NULL

ttree_item_from_cursor(t, h, cursor) ==
    LET key == ttree_key_from_cursor(h, cursor)
    IN  IF key = NULL THEN NULL ELSE ttree_key2item(t, key)

(***************************************************************************)
(* __ttree_init.  Next to the fields of struct ttree the tree carries a     *)
(* log, migrations: the key migrations that rebalance made during the call *)
(* in progress.  It is history, no code reads it, and it is empty between  *)
(* calls.  mem is what the caller's Ttree object holds before the          *)
(* call and errno the value of errno; ttree is the pointer handed in.  The *)
(* result is the return value, errno and the object after the call.        *)
(***************************************************************************)
\* a Ttree object that was never written; u is what its bool happens to hold
Uninitialized(u) ==
    [root |-> Garbage, keys_per_tnode |-> Garbage, cmp_func |-> Garbage,
     key_offs |-> Garbage, keys_are_unique |-> u, migrations |-> << >>]

\* a __ttree_init that takes any comparator
__ttree_init_any_cmpf(mem, errno, ttree, num_keys, is_unique, cmpf, key_offs) ==
    IF \/ num_keys < TNODE_ITEMS_MIN
       \/ num_keys > TNODE_ITEMS_MAX
       \/ ttree = NULL
    THEN [ret |-> -1, errno |-> EINVAL, t |-> mem]
    ELSE [ret |-> 0, errno |-> errno,
          t |-> [root |-> NULL, keys_per_tnode |-> num_keys,
                 cmp_func |-> cmpf, key_offs |-> key_offs,
                 keys_are_unique |-> is_unique, migrations |-> << >>]]

__ttree_init(mem, errno, ttree, num_keys, is_unique, cmpf, key_offs) ==
    IF \/ num_keys < TNODE_ITEMS_MIN
       \/ num_keys > TNODE_ITEMS_MAX
       \/ ttree = NULL
       \/ cmpf = NULL
    THEN [ret |-> -1, errno |-> EINVAL, t |-> mem]
    ELSE [ret |-> 0, errno |-> errno,
          t |-> [root |-> NULL, keys_per_tnode |-> num_keys,
                 cmp_func |-> cmpf, key_offs |-> key_offs,
                 keys_are_unique |-> is_unique, migrations |-> << >>]]

(***************************************************************************)
(* The state: the tree, the heap of its nodes, the caller's cursor, the    *)
(* name and the return value of the last call.        present and inserts  *)
(* are history: the items inserted and not deleted since, and how often    *)
(* each item was inserted while absent.  lkey is the key the caller's      *)
(* cursor was looked up with (NULL when it does not come from a lookup).   *)
(***************************************************************************)
VARIABLES ttree, tn, cursor, op, ret, present, inserts, lkey

vars == <<ttree, tn, cursor, op, ret, present, inserts, lkey>>

\* a cursor the caller has not opened: the memory is zeroed
ClosedCursor ==
    [tnode |-> NULL, idx |-> 0, side |-> TNODE_LEFT, state |-> CURSOR_CLOSED]

EmptyHeap == [a \in {} |-> NULL]

Init ==
    /\ \E n \in NumKeysChoices, o \in KeyOffsets :
           \E r \in {__ttree_init(Uninitialized(FALSE), 0, TreeObject, n, TRUE,
                                  KeyCmp, o)} : ttree = r.t
    /\ tn = EmptyHeap
    /\ cursor = ClosedCursor
    /\ op = "init"
    /\ ret = 0
    /\ present = {}
    /\ inserts = [k \in Items |-> 0]
    /\ lkey = NULL

\* the caller inserts item k; an item once deleted is inserted again only
\* MaxInserts times in all
Insert(k) ==
    /\ k \in present \/ inserts[k] < MaxInserts
    /\ op' = "insert"
    /\ present' = present \cup {k}
    /\ inserts' = IF k \in present THEN inserts
                  ELSE [inserts EXCEPT ![k] = @ + 1]
    /\ \E r \in {ttree_insert(ttree, tn, k)} :
           /\ ttree' = Unlogged(r.t)
           /\ tn' = r.h
           /\ ret' = r.ret
    /\ cursor' = ClosedCursor
    /\ lkey' = NULL

\* what ttree_delete can do: one outcome, or one for each direction of
\* memcpy when the call copies between overlapping ranges
OutcomesWith(f, t, h, key) ==
    IF f.overlap
    THEN {ttree_delete(t, h, key, dir) : dir \in MemcpyDirs}
    ELSE {f}

DeleteOutcomes(t, h, key) ==
    OutcomesWith(ttree_delete(t, h, key, "forward"), t, h, key)

\* the caller deletes by the key of item k
Delete(k) ==
    /\ op' = "delete"
    /\ present' = present \ {k}
    /\ \E r \in DeleteOutcomes(ttree, tn, ttree_item2key(ttree, k)) :
           /\ ttree' = Unlogged(r.t)
           /\ tn' = r.h
           /\ ret' = r.ret
    /\ cursor' = ClosedCursor
    /\ lkey' = NULL
    /\ UNCHANGED inserts

Next == \E k \in Items : Insert(k) \/ Delete(k)

Spec == Init /\ [][Next]_vars

(***************************************************************************)
(* What the properties below read off a tree.                              *)
(***************************************************************************)
Max2(a, b) == IF a > b THEN a ELSE b
SetMin(S) == CHOOSE x \in S : \A y \in S : x <= y
SetMax(S) == CHOOSE x \in S : \A y \in S : x >= y

RECURSIVE SortedSeq(_)
SortedSeq(S) ==
    IF S = {} THEN << >> ELSE <<SetMin(S)>> \o SortedSeq(S \ {SetMin(S)})

Reverse(s) == [i \in 1..Len(s) |-> s[Len(s) + 1 - i]]
StrictlyIncreasing(s) == \A i \in 1..(Len(s) - 1) : s[i] < s[i + 1]

\* the number of nodes on the longest path down from n
RECURSIVE Height(_, _)
Height(h, n) ==
    IF n = NULL THEN 0
    ELSE 1 + Max2(Height(h, h[n].sides[TNODE_LEFT]),
                  Height(h, h[n].sides[TNODE_RIGHT]))

\* the key values in the window of node n, in slot order and as a set
NodeKeys(t, n) ==
    [i \in 1..tnode_num_keys(n) |->
        KeyValue(t, ReadKey(n.keys, n.min_idx + i - 1))]
WindowKeys(t, n) == {NodeKeys(t, n)[i] : i \in 1..tnode_num_keys(n)}

RECURSIVE SubtreeNodes(_, _)
SubtreeNodes(h, n) ==
    IF n = NULL THEN {}
    ELSE {n} \cup SubtreeNodes(h, h[n].sides[TNODE_LEFT])
             \cup SubtreeNodes(h, h[n].sides[TNODE_RIGHT])

SubtreeKeys(t, h, n) == UNION {WindowKeys(t, h[m]) : m \in SubtreeNodes(h, n)}
TreeKeys(t, h) == UNION {WindowKeys(t, h[m]) : m \in DOMAIN h}
\* how many slots of the tree hold key value k
KeyCount(t, h, k) ==
    Cardinality({<<m, i>> \in (DOMAIN h) \X (0..(t.keys_per_tnode - 1)) :
                    /\ i >= h[m].min_idx /\ i <= h[m].max_idx
                    /\ KeyValue(t, ReadKey(h[m].keys, i)) = k})

\* the nodes met from n along the successor links (at most fuel of them)
RECURSIVE ChainNodes(_, _, _)
ChainNodes(h, n, fuel) ==
    IF n = NULL \/ fuel = 0 THEN << >>
    ELSE <<n>> \o ChainNodes(h, h[n].successor, fuel - 1)

RECURSIVE ConcatKeys(_, _, _)
ConcatKeys(t, h, nodes) ==
    IF nodes = << >> THEN << >>
    ELSE NodeKeys(t, h[Head(nodes)]) \o ConcatKeys(t, h, Tail(nodes))

\* the keys read along the successor chain from the leftmost node
ChainKeys(t, h) ==
    ConcatKeys(t, h, ChainNodes(h, ttree_node_leftmost(h, t.root),
                                Cardinality(DOMAIN h) + 1))

LookupItem(t, h, k) == ttree_lookup(t, h, ttree_item2key(t, k)).item

(***************************************************************************)
(* Properties of the tree under Spec.                                      *)
(***************************************************************************)
\* C1: after any sequence of ttree_insert and ttree_delete calls the keys
\* read along the successor chain from the leftmost node, each node from
\* min_idx to max_idx, are strictly increasing, and for every node every key
\* of its left subtree is smaller than its minimum key and every key of its
\* right subtree is greater than its maximum key.
C1_Order ==
    /\ StrictlyIncreasing(ChainKeys(ttree, tn))
    /\ \A n \in DOMAIN tn :
          /\ \A k \in SubtreeKeys(ttree, tn, tn[n].sides[TNODE_LEFT]) :
                k < KeyValue(ttree, tnode_key_min(tn[n]))
          /\ \A k \in SubtreeKeys(ttree, tn, tn[n].sides[TNODE_RIGHT]) :
                k > KeyValue(ttree, tnode_key_max(tn[n]))

\* C2: after any sequence of inserts and deletes, ttree_lookup(k) returns
\* the item stored under k if k was inserted and not deleted since, and NULL
\* otherwise.
C2_Lookup ==
    \A k \in Items :
        LookupItem(ttree, tn, k) = IF k \in present THEN k ELSE NULL

\* C3: after every ttree_insert and ttree_delete, for every node the heights
\* of the left and the right subtree differ by at most 1 and the recorded
\* bfc equals height(right) - height(left).
C3_Balance ==
    \A n \in DOMAIN tn :
        LET d == Height(tn, tn[n].sides[TNODE_RIGHT])
                 - Height(tn, tn[n].sides[TNODE_LEFT])
        IN  d \in {-1, 0, 1} /\ tn[n].bfc = d

\* C3 witness: a delete has just removed a key from a tree that is still
\* three levels high and has nodes leaning to either side
C3_Witness ==
    /\ op = "delete" /\ ret # NULL
    /\ Height(tn, ttree.root) = 3
    /\ \E n \in DOMAIN tn : tn[n].bfc = 1
    /\ \E n \in DOMAIN tn : tn[n].bfc = -1

\* what C4 asks of a ttree_delete(k) step
C4_DeleteStep(k) ==
    IF k \in TreeKeys(ttree, tn)
    THEN /\ ret' = k
         /\ KeyCount(ttree', tn', k) = KeyCount(ttree, tn, k) - 1
         /\ \A j \in Items \ {k} :
               /\ KeyCount(ttree', tn', j) = KeyCount(ttree, tn, j)
               /\ j \in TreeKeys(ttree, tn) => LookupItem(ttree', tn', j) = j
    ELSE ret' = NULL /\ ttree' = ttree /\ tn' = tn

\* C4: ttree_delete(k) on a tree that holds k returns the item stored under
\* k and removes exactly that key, every other key staying in the tree and
\* findable; on a tree that does not hold k it returns NULL and leaves the
\* tree unchanged.
C4_Delete == [][\A k \in Items : Delete(k) => C4_DeleteStep(k)]_vars

\* what C5 asks of a ttree_insert(k) step
C5_InsertStep(k) ==
    /\ IF k \in TreeKeys(ttree, tn)
       THEN ret' < 0 /\ ttree' = ttree /\ tn' = tn
       ELSE /\ ret' = 0
            /\ TreeKeys(ttree', tn') = TreeKeys(ttree, tn) \cup {k}
    /\ \A j \in Items : KeyCount(ttree', tn', j) <= 1

\* C5: in a unique tree ttree_insert of a key the tree holds returns a
\* negative value and leaves the tree unchanged; of a key it does not hold
\* returns 0 and adds that key; no key is ever held twice.
C5_Insert == [][\A k \in Items : Insert(k) => C5_InsertStep(k)]_vars

\* C6: after every mutation the successor link of every node points to the
\* node holding the key immediately greater than the node's maximum key, it
\* is NULL for the node holding the global maximum, and the successor chain
\* from the leftmost node visits every node exactly once.
C6_Successor ==
    /\ \A n \in DOMAIN tn :
          LET mx == KeyValue(ttree, tnode_key_max(tn[n]))
              above == {j \in TreeKeys(ttree, tn) : j > mx}
          IN  IF above = {} THEN tn[n].successor = NULL
              ELSE /\ tn[n].successor \in DOMAIN tn
                   /\ SetMin(above) \in
                          WindowKeys(ttree, tn[tn[n].successor])
    /\ LET c == ChainNodes(tn, ttree_node_leftmost(tn, ttree.root),
                           Cardinality(DOMAIN tn) + 1)
       IN  /\ Len(c) = Cardinality(DOMAIN tn)
           /\ {c[i] : i \in 1..Len(c)} = DOMAIN tn

\* C7: after every mutation every internal node holds exactly M keys and
\* every leaf and half-leaf holds between 1 and M keys.
C7_Fullness ==
    \A n \in DOMAIN tn :
        IF is_internal_node(tn[n])
        THEN tnode_num_keys(tn[n]) = ttree.keys_per_tnode
        ELSE /\ tnode_num_keys(tn[n]) >= 1
             /\ tnode_num_keys(tn[n]) <= ttree.keys_per_tnode

(***************************************************************************)
(* A full scan with a cursor, as the caller runs it.                       *)
(***************************************************************************)
\* the key value the cursor names
CursorKey(t, h, c) == KeyValue(t, ttree_key_from_cursor(h, c))

\* a scan longer than this has left the tree
ScanFuel == 2 * MaxKey + 2

\* the keys that repeated ttree_cursor_next (forward) or ttree_cursor_prev
\* visits from cursor c on, until TCSR_END
RECURSIVE ScanFrom(_, _, _, _, _)
ScanFrom(t, h, c, forward, fuel) ==
    IF fuel = 0 THEN << >>
    ELSE LET r == IF forward THEN ttree_cursor_next(h, c)
                  ELSE ttree_cursor_prev(h, c)
         IN  IF r.ret = TCSR_END THEN << >>
             ELSE <<CursorKey(t, h, r.cursor)>>
                      \o ScanFrom(t, h, r.cursor, forward, fuel - 1)

ForwardScan(t, h) ==
    LET f == ttree_cursor_first(t, h, ClosedCursor)
    IN  IF f.ret # 0 THEN << >>
        ELSE <<CursorKey(t, h, f.cursor)>>
                 \o ScanFrom(t, h, f.cursor, TRUE, ScanFuel)

BackwardScan(t, h) ==
    LET f == ttree_cursor_last(t, h, ClosedCursor)
    IN  IF f.ret # 0 THEN << >>
        ELSE <<CursorKey(t, h, f.cursor)>>
                 \o ScanFrom(t, h, f.cursor, FALSE, ScanFuel)

\* C9: for a tree holding N >= 1 distinct keys, ttree_cursor_first and
\* repeated ttree_cursor_next visit all N keys in strictly ascending order
\* and then return TCSR_END; ttree_cursor_last and repeated
\* ttree_cursor_prev visit them in strictly descending order and then
\* return TCSR_END.
C9_Scan ==
    present # {} =>
        /\ ForwardScan(ttree, tn) = SortedSeq(present)
        /\ BackwardScan(ttree, tn) = Reverse(SortedSeq(present))

(***************************************************************************)
(* The caller's cursor.  A mutation through ttree_insert or ttree_delete   *)
(* ends the life of the cursor the caller held (it is closed again).       *)
(***************************************************************************)
\* item = ttree_lookup(ttree, key of item k, &cursor)
Lookup(k) ==
    /\ \E l \in {ttree_lookup(ttree, tn, ttree_item2key(ttree, k))} :
           /\ cursor' = l.cursor
           /\ ret' = l.item
    /\ op' = "lookup"
    /\ lkey' = k
    /\ UNCHANGED <<ttree, tn, present, inserts>>

\* ttree_cursor_open(&cursor, ttree)
CursorOpen ==
    /\ cursor' = ttree_cursor_open(ttree, tn)
    /\ ret' = 0
    /\ op' = "open"
    /\ lkey' = NULL
    /\ UNCHANGED <<ttree, tn, present, inserts>>

\* ttree_cursor_first(&cursor); the cursor has been opened on the tree
CursorFirst ==
    /\ op \in {"open", "lookup", "first", "last", "next", "prev"}
    /\ \E r \in {ttree_cursor_first(ttree, tn, cursor)} :
           cursor' = r.cursor /\ ret' = r.ret
    /\ op' = "first"
    /\ lkey' = NULL
    /\ UNCHANGED <<ttree, tn, present, inserts>>

\* ttree_cursor_last(&cursor)
CursorLast ==
    /\ op \in {"open", "lookup", "first", "last", "next", "prev"}
    /\ \E r \in {ttree_cursor_last(ttree, tn, cursor)} :
           cursor' = r.cursor /\ ret' = r.ret
    /\ op' = "last"
    /\ lkey' = NULL
    /\ UNCHANGED <<ttree, tn, present, inserts>>

\* the cursor names a slot inside the window of its node
InWindow(h, c) ==
    /\ c.tnode \in DOMAIN h
    /\ c.idx >= h[c.tnode].min_idx
    /\ c.idx <= h[c.tnode].max_idx

\* the cursors the caller moves on with: one that is not opened, or an
\* opened one that names a key
Movable(h, c) ==
    c.tnode # NULL /\ (c.state = CURSOR_OPENED => InWindow(h, c))

\* ttree_cursor_next(&cursor); the function asserts cursor->tnode != NULL
CursorNext ==
    /\ Movable(tn, cursor)
    /\ \E r \in {ttree_cursor_next(tn, cursor)} :
           cursor' = r.cursor /\ ret' = r.ret
    /\ op' = "next"
    /\ lkey' = NULL
    /\ UNCHANGED <<ttree, tn, present, inserts>>

\* ttree_cursor_prev(&cursor); it reads cursor->tnode unless the cursor is
\* closed
CursorPrev ==
    /\ Movable(tn, cursor)
    /\ \E r \in {ttree_cursor_prev(tn, cursor)} :
           cursor' = r.cursor /\ ret' = r.ret
    /\ op' = "prev"
    /\ lkey' = NULL
    /\ UNCHANGED <<ttree, tn, present, inserts>>

\* ttree_insert_at_cursor(&cursor, item k) with the cursor that a lookup for
\* the key of item k has just left pending
InsertAtCursor(k) ==
    /\ op = "lookup" /\ lkey = k /\ ret = NULL
    /\ cursor.state = CURSOR_PENDING
    /\ inserts[k] < MaxInserts
    /\ \E r \in {ttree_insert_at_cursor(ttree, tn, cursor, k)} :
           /\ ttree' = Unlogged(r.t)
           /\ tn' = r.h
           /\ cursor' = r.cursor
    /\ op' = "insert_at_cursor"
    /\ ret' = 0
    /\ present' = present \cup {k}
    /\ inserts' = [inserts EXCEPT ![k] = @ + 1]
    /\ UNCHANGED lkey

NextCursor ==
    \/ \E k \in CursorItems : Insert(k)
    \/ \E k \in CursorItems : Delete(k)
    \/ \E k \in CursorItems : Lookup(k)
    \/ \E k \in CursorItems : InsertAtCursor(k)
    \/ CursorOpen
    \/ CursorFirst
    \/ CursorLast
    \/ CursorNext
    \/ CursorPrev

SpecCursor == Init /\ [][NextCursor]_vars

(***************************************************************************)
(* Properties of the caller's cursor under SpecCursor.                     *)
(***************************************************************************)
\* C8: after ttree_insert_at_cursor with the PENDING cursor a lookup miss
\* left (or the cursor of an empty tree), the caller's cursor is OPENED and
\* ttree_key_from_cursor returns the key of the inserted item.
C8_CursorAtKey ==
    op = "insert_at_cursor" =>
        /\ cursor.state = CURSOR_OPENED
        /\ ttree_key_from_cursor(tn, cursor) = ttree_item2key(ttree, lkey)

\* what C10 asks of a ttree_cursor_next / ttree_cursor_prev step taken with
\* the cursor a lookup for item q has left
C10_MoveStep(q) ==
    LET above == {j \in TreeKeys(ttree, tn) : j > q}
        below == {j \in TreeKeys(ttree, tn) : j < q}
        want == IF op' = "next"
                THEN (IF above = {} THEN NULL ELSE SetMin(above))
                ELSE (IF below = {} THEN NULL ELSE SetMax(below))
    IN  IF want = NULL
        THEN ret' = TCSR_END
        ELSE /\ ret' = TCSR_OK
             /\ cursor'.state = CURSOR_OPENED
             /\ InWindow(tn', cursor')
             /\ CursorKey(ttree', tn', cursor') = want

\* C10: after a ttree_lookup miss on key q in a non-empty tree, with the
\* PENDING cursor it left, ttree_cursor_next returns TCSR_OK with the cursor
\* OPENED on the smallest key greater than q, or TCSR_END if there is none;
\* ttree_cursor_prev returns TCSR_OK with the cursor OPENED on the greatest
\* key smaller than q, or TCSR_END; with TCSR_OK the index is inside the
\* window of the node.
C10_PendingMove ==
    [][(/\ op = "lookup" /\ ret = NULL /\ ttree.root # NULL
        /\ cursor.state = CURSOR_PENDING
        /\ op' \in {"next", "prev"}) => C10_MoveStep(lkey)]_vars

(***************************************************************************)
(* Trees with wider nodes: 3 or 4 keys per node, so that a node has keys   *)
(* between its minimum and its maximum.  The caller inserts, deletes and   *)
(* looks up.                                                               *)
(***************************************************************************)
WideItems == 1..MaxWideKey
WideNumKeys == {3, 4}

InitWide ==
    /\ \E n \in WideNumKeys, o \in KeyOffsets :
           \E r \in {__ttree_init(Uninitialized(FALSE), 0, TreeObject, n, TRUE,
                                  KeyCmp, o)} : ttree = r.t
    /\ tn = EmptyHeap
    /\ cursor = ClosedCursor
    /\ op = "init"
    /\ ret = 0
    /\ present = {}
    /\ inserts = [k \in Items |-> 0]
    /\ lkey = NULL

NextWide ==
    \/ \E k \in WideItems : Insert(k)
    \/ \E k \in WideItems : Delete(k)
    \/ \E k \in WideItems : Lookup(k)

SpecWide == InitWide /\ [][NextWide]_vars

\* C11: when ttree_lookup hits, the cursor is OPENED with side BOUND on the
\* node and slot holding the key: ttree_key_from_cursor returns a key that
\* compares equal to the queried key and ttree_item_from_cursor equals the
\* returned item, for a minimum, a maximum and an interior key alike.
C11_HitCursor ==
    (op = "lookup" /\ ret # NULL) =>
        /\ cursor.state = CURSOR_OPENED
        /\ cursor.side = TNODE_BOUND
        /\ InWindow(tn, cursor)
        /\ cmp_func(ttree, ttree_key_from_cursor(tn, cursor),
                    ttree_item2key(ttree, lkey)) = 0
        /\ ttree_item_from_cursor(ttree, tn, cursor) = ret

\* C11 witness: a lookup has hit a key strictly inside the window of a node
C11_Witness ==
    /\ op = "lookup" /\ ret # NULL
    /\ cursor.tnode \in DOMAIN tn
    /\ cursor.idx > tn[cursor.tnode].min_idx
    /\ cursor.idx < tn[cursor.tnode].max_idx

(***************************************************************************)
(* The caller's cursor, with ttree_delete_at_cursor.                       *)
(***************************************************************************)
\* what ttree_delete_at_cursor can do: one outcome, or one for each
\* direction of memcpy when the call copies between overlapping ranges
CursorDeleteOutcomes(f, t, h, c) ==
    IF f.overlap
    THEN {ttree_delete_at_cursor(t, h, c, dir) : dir \in MemcpyDirs}
    ELSE {f}

\* ttree_delete_at_cursor(&cursor); the function asserts that the cursor is
\* opened, and reads the slot it names
DeleteAtCursor ==
    /\ cursor.state = CURSOR_OPENED
    /\ InWindow(tn, cursor)
    /\ \E r \in CursorDeleteOutcomes(
                    ttree_delete_at_cursor(ttree, tn, cursor, "forward"),
                    ttree, tn, cursor) :
           /\ ttree' = Unlogged(r.t)
           /\ tn' = r.h
           /\ cursor' = r.cursor
           /\ ret' = r.ret
           /\ present' = present \ {r.ret}
    /\ op' = "delete_at_cursor"
    /\ lkey' = NULL
    /\ UNCHANGED inserts

NextCursorDelete ==
    \/ NextCursor
    \/ DeleteAtCursor

SpecCursorDelete == Init /\ [][NextCursorDelete]_vars

\* what C12 asks of one step: a ttree_delete_at_cursor returns the item the
\* cursor named and closes the cursor; a ttree_cursor_next or
\* ttree_cursor_prev on a closed cursor returns TCSR_END and leaves it as
\* it is
C12_Step ==
    /\ op' = "delete_at_cursor" =>
          /\ ret' = ttree_item_from_cursor(ttree, tn, cursor)
          /\ cursor'.state = CURSOR_CLOSED
    /\ (cursor.state = CURSOR_CLOSED /\ op' \in {"next", "prev"}) =>
          /\ ret' = TCSR_END
          /\ cursor' = cursor
    /\ cursor'.state = CURSOR_CLOSED =>
          ttree_key_from_cursor(tn', cursor') = NULL

\* C12: ttree_delete_at_cursor with an OPENED cursor returns the item the
\* cursor named and leaves the cursor CLOSED; every later ttree_cursor_next
\* or ttree_cursor_prev on it returns TCSR_END without moving it, and
\* ttree_key_from_cursor returns NULL, until the cursor is opened again.
C12_ClosedAfterDelete == [][C12_Step]_vars

\* C12 witness: a cursor that ttree_delete_at_cursor closed while freeing
\* its node has been asked to move
C12_Witness ==
    /\ op \in {"next", "prev"}
    /\ cursor.state = CURSOR_CLOSED
    /\ cursor.tnode # NULL
    /\ cursor.tnode \notin DOMAIN tn
    /\ ret = TCSR_END

(***************************************************************************)
(* ttree_insert followed by ttree_delete of the same key.                  *)
(***************************************************************************)
\* the tree below n without its addresses: the shape, and the keys of each
\* node
RECURSIVE Shape(_, _, _)
Shape(t, h, n) ==
    IF n = NULL THEN << >>
    ELSE <<Shape(t, h, h[n].sides[TNODE_LEFT]),
           WindowKeys(t, h[n]),
           Shape(t, h, h[n].sides[TNODE_RIGHT])>>

\* the trees that ttree_delete of item k can leave of the tree that a
\* ttree_insert left as r
DeletedAgain(r, k) ==
    {[t |-> d.t, h |-> d.h] :
        d \in DeleteOutcomes(r.t, r.h, ttree_item2key(r.t, k))}

\* the trees left by ttree_insert of k followed by ttree_delete of k
RoundTrips(k) ==
    UNION {DeletedAgain(r, k) : r \in {ttree_insert(ttree, tn, k)}}

\* C13: for every reachable tree and every key k not in it, ttree_insert of
\* k followed by ttree_delete of k leaves a structurally equal tree: the same
\* keys, the same shape, the same partitioning of the keys into nodes.
C13_RoundTrip ==
    \A k \in Items \ TreeKeys(ttree, tn) :
        \A d \in RoundTrips(k) :
            Shape(d.t, d.h, d.t.root) = Shape(ttree, tn, ttree.root)

\* C13, amended: for every reachable tree and every key k not in it,
\* ttree_insert of k followed by ttree_delete of k leaves a tree with the
\* same keys, each in as many slots as before; the shape and the
\* partitioning of the keys into nodes may differ.
C13_RoundTripKeys ==
    \A k \in Items \ TreeKeys(ttree, tn) :
        \A d \in RoundTrips(k) :
            \A j \in Items : KeyCount(d.t, d.h, j) = KeyCount(ttree, tn, j)

\* C13 witness: a round trip that keeps the keys and the shape and leaves
\* another partitioning of the keys into nodes
C13_Witness ==
    \E k \in Items \ TreeKeys(ttree, tn) :
        \E d \in RoundTrips(k) :
            /\ TreeKeys(d.t, d.h) = TreeKeys(ttree, tn)
            /\ Height(d.h, d.t.root) = Height(tn, ttree.root)
            /\ Cardinality(DOMAIN d.h) = Cardinality(DOMAIN tn)
            /\ Shape(d.t, d.h, d.t.root) # Shape(ttree, tn, ttree.root)

(***************************************************************************)
(* __ttree_init on its own: the caller hands in any arguments, again and   *)
(* again on the same object.  Here ret holds the return value and errno.   *)
(***************************************************************************)
InitNumKeys == {0, 1, 2, 3, 8, 4095, 4096, 4097}
InitTrees == {NULL, TreeObject}
InitCmpFuncs == {NULL, KeyCmp, KeyCmp + 1}
InitKeyOffsets == {0, 4}

InitUninit ==
    /\ \E u \in BOOLEAN : ttree = Uninitialized(u)
    /\ tn = EmptyHeap
    /\ cursor = ClosedCursor
    /\ op = "start"
    /\ ret = [ret |-> 0, errno |-> 0]
    /\ present = {}
    /\ inserts = [k \in Items |-> 0]
    /\ lkey = NULL

\* ret = __ttree_init(p, n, u, f, o)
TtreeInit(p, n, u, f, o) ==
    /\ \E r \in {__ttree_init(ttree, ret.errno, p, n, u, f, o)} :
           /\ ttree' = r.t
           /\ ret' = [ret |-> r.ret, errno |-> r.errno]
    /\ op' = "__ttree_init"
    /\ UNCHANGED <<tn, cursor, present, inserts, lkey>>

\* errno = 0, as the caller does after a failed call
ClearErrno ==
    /\ ret.errno # 0
    /\ ret' = [ret EXCEPT !.errno = 0]
    /\ op' = "errno"
    /\ UNCHANGED <<ttree, tn, cursor, present, inserts, lkey>>

NextInit ==
    \/ \E p \in InitTrees, n \in InitNumKeys, u \in BOOLEAN,
          f \in InitCmpFuncs, o \in InitKeyOffsets : TtreeInit(p, n, u, f, o)
    \/ ClearErrno

SpecInit == InitUninit /\ [][NextInit]_vars

\* what C14 asks of a __ttree_init(p, n, u, f, o) step
C14_InitStep(p, n, u, f, o) ==
    IF n < 2 \/ n > 4096 \/ p = NULL \/ f = NULL
    THEN /\ ret'.ret = -1
         /\ ret'.errno = EINVAL
         /\ ttree' = ttree
    ELSE /\ ret'.ret = 0
         /\ ttree'.root = NULL
         /\ ttree'.keys_per_tnode = n
         /\ ttree'.cmp_func = f
         /\ ttree'.key_offs = o
         /\ ttree'.keys_are_unique = u

\* C14: __ttree_init returns -1 with errno EINVAL and writes nothing to the
\* tree exactly when num_keys < 2, num_keys > 4096, the tree pointer is NULL
\* or the comparator is NULL; otherwise it returns 0 and the tree is empty,
\* with the given keys-per-node, comparator, key offset and uniqueness flag.
C14_Init ==
    [][\A p \in InitTrees, n \in InitNumKeys, u \in BOOLEAN,
          f \in InitCmpFuncs, o \in InitKeyOffsets :
            TtreeInit(p, n, u, f, o) => C14_InitStep(p, n, u, f, o)]_vars

\* C14 witness: a call failed on an object that an earlier call had set up
\* with 4096 keys per node, and left it as it was
C14_Witness ==
    /\ op = "__ttree_init"
    /\ ret.ret = -1
    /\ ret.errno = EINVAL
    /\ ttree.keys_per_tnode = 4096
    /\ ttree.root = NULL

(***************************************************************************)
(* The caller inserts, deletes and replaces.                               *)
(***************************************************************************)
ReplaceItems == 1..MaxReplaceKey

\* what the local cursor of ttree_replace can hold
JunkCursors(t, h) ==
    [key : {ttree_item2key(t, k) : k \in ReplaceItems},
     tnode : DOMAIN h \cup {NULL},
     idx : 0..(t.keys_per_tnode - 1)]

\* some slot of the tree holds the key of a second item
HoldsCopy(t, h) ==
    \E n \in DOMAIN h :
        \E i \in 0..(t.keys_per_tnode - 1) :
            ReadKey(h[n].keys, i) - t.key_offs > 100

\* ret = ttree_replace(&ttree, &k, CopyOf(k)); the caller has one second
\* item to put into the tree
Replace(k) ==
    /\ ~HoldsCopy(ttree, tn)
    /\ \E junk \in JunkCursors(ttree, tn) :
           \E r \in {ttree_replace(ttree, tn, ttree_item2key(ttree, k),
                                   CopyOf(k), junk)} :
               tn' = r.h /\ ret' = r.ret
    /\ op' = "replace"
    /\ cursor' = ClosedCursor
    /\ lkey' = NULL
    /\ UNCHANGED <<ttree, present, inserts>>

NextReplace ==
    \/ \E k \in ReplaceItems : Insert(k)
    \/ \E k \in ReplaceItems : Delete(k)
    \/ \E k \in ReplaceItems : Replace(k)

SpecReplace == Init /\ [][NextReplace]_vars

\* what C15 asks of a ttree_replace step with the key of item k and the
\* caller's other item with that key
C15_ReplaceStep(k) ==
    IF k \in TreeKeys(ttree, tn)
    THEN /\ ret' = 0
         /\ ttree' = ttree
         /\ \E n \in DOMAIN tn :
               \E i \in tn[n].min_idx..tn[n].max_idx :
                  /\ KeyValue(ttree, ReadKey(tn[n].keys, i)) = k
                  /\ tn' = [tn EXCEPT ![n].keys =
                               WriteKey(@, i,
                                        ttree_item2key(ttree, CopyOf(k)))]
    ELSE /\ ret' < 0
         /\ ttree' = ttree
         /\ tn' = tn

\* C15: ttree_replace(tree, key, new_item) looks the tree up by key: if the
\* key is present it returns 0 and only the slot holding that key is
\* overwritten with the key pointer of new_item; if the key is absent it
\* returns a negative value and the tree is unchanged.
C15_Replace ==
    [][\A k \in ReplaceItems : Replace(k) => C15_ReplaceStep(k)]_vars

(***************************************************************************)
(* ttree_destroy.  freed lists the addresses handed to free(), in order.   *)
(***************************************************************************)
\* the for loop of ttree_destroy; a tnode that is no longer on the heap is
\* read after its free, and the pass is followed no further
RECURSIVE DestroyWalk(_, _, _)
DestroyWalk(h, tnode, freed) ==
    IF tnode = NULL THEN [h |-> h, freed |-> freed]
    ELSE IF tnode \notin DOMAIN h
    THEN [h |-> h, freed |-> Append(freed, tnode)]
    ELSE DestroyWalk(FreeNode(h, tnode), h[tnode].successor,
                     Append(freed, tnode))

\* what ttree_destroy hands back of the walk w
Destroyed(t, w) ==
    [t |-> [t EXCEPT !.root = NULL], h |-> w.h, freed |-> w.freed]

\* a ttree_destroy that starts its pass at the root
ttree_destroy_from_root(t, h) ==
    IF t.root = NULL
    THEN [t |-> t, h |-> h, freed |-> << >>]
    ELSE Destroyed(t, DestroyWalk(h, t.root, << >>))

ttree_destroy(t, h) ==
    IF t.root = NULL
    THEN [t |-> t, h |-> h, freed |-> << >>]
    ELSE Destroyed(t, DestroyWalk(h, ttree_node_leftmost(h, t.root), << >>))

\* ttree_destroy(&ttree); ret is the list of the addresses freed
Destroy ==
    /\ op' = "destroy"
    /\ \E r \in {ttree_destroy(ttree, tn)} :
           /\ ttree' = r.t
           /\ tn' = r.h
           /\ ret' = r.freed
    /\ present' = {}
    /\ cursor' = ClosedCursor
    /\ lkey' = NULL
    /\ UNCHANGED inserts

NextDestroy ==
    \/ Next
    \/ Destroy

SpecDestroy == Init /\ [][NextDestroy]_vars

\* what C16 asks of a ttree_destroy step
C16_DestroyStep ==
    IF ttree.root = NULL
    THEN ret' = << >> /\ tn' = tn /\ ttree' = ttree
    ELSE /\ {ret'[i] : i \in 1..Len(ret')} = DOMAIN tn
         /\ Len(ret') = Cardinality(DOMAIN tn)
         /\ ret' = ChainNodes(tn, ttree_node_leftmost(tn, ttree.root),
                              Cardinality(DOMAIN tn) + 1)
         /\ tn' = EmptyHeap
         /\ ttree'.root = NULL

\* C16: ttree_destroy on a tree reached by any sequence of inserts and
\* deletes frees every node of the tree exactly once, by one pass along the
\* successor chain from the leftmost node, and leaves root NULL; on an empty
\* tree it does nothing.
C16_Destroy == [][Destroy => C16_DestroyStep]_vars

\* C16 witness: ttree_destroy has freed a tree of five nodes
C16_Witness ==
    /\ op = "destroy"
    /\ Len(ret) = 5
    /\ tn = EmptyHeap

(***************************************************************************)
(* The empty tree.                                                         *)
(***************************************************************************)
\* root is NULL exactly when no node holds a key
C17_RootIffKeys ==
    (ttree.root = NULL) <=> (TreeKeys(ttree, tn) = {})

\* no node below the root has an empty window, and no node lies elsewhere
C17_NoEmptyNode ==
    /\ SubtreeNodes(tn, ttree.root) = DOMAIN tn
    /\ \A n \in DOMAIN tn : ~tnode_is_empty(tn[n])

\* once every inserted key has had its ttree_delete the tree is empty
C17_AllDeleted ==
    present = {} => ttree.root = NULL

\* C17: after any sequence of inserts and deletes the root is NULL if and
\* only if the tree holds no key; while a key remains the root is non-NULL
\* and no reachable node has an empty window; and deleting every inserted
\* key, one ttree_delete per key, ends with an empty tree.
C17_Empty ==
    /\ C17_RootIffKeys
    /\ C17_NoEmptyNode
    /\ C17_AllDeleted

(***************************************************************************)
(* The key migrations of rebalance.                                        *)
(***************************************************************************)
Entries(t) == {t.migrations[i] : i \in 1..Len(t.migrations)}

\* the key migrations that ttree_insert of item k makes on the tree as it
\* is, and those that ttree_delete of its key makes
InsertMigrations(k) ==
    UNION {Entries(r.t) : r \in {ttree_insert(ttree, tn, k)}}
DeleteMigrations(k) ==
    UNION {Entries(d.t) :
              d \in DeleteOutcomes(ttree, tn, ttree_item2key(ttree, k))}

\* the child of m.node whose keys the code's test picks for the migration
Donor(m) ==
    IF tnode_num_keys(m.pre[m.pre[m.node].sides[TNODE_RIGHT]])
          >= tnode_num_keys(m.pre[m.pre[m.node].sides[TNODE_LEFT]])
    THEN m.pre[m.node].sides[TNODE_RIGHT]
    ELSE m.pre[m.node].sides[TNODE_LEFT]

\* what C18 asks of the key migration m with donor d
C18_MigratedFrom(m, d) ==
    LET T == m.node
        left == m.pre[T].sides[TNODE_LEFT]
        right == m.pre[T].sides[TNODE_RIGHT]
    IN  /\ tnode_num_keys(m.post[T]) = tnode_num_keys(m.pre[d])
        /\ StrictlyIncreasing(NodeKeys(ttree, m.post[T]))
        /\ WindowKeys(ttree, m.post[T]) \cup WindowKeys(ttree, m.post[d])
              = WindowKeys(ttree, m.pre[T]) \cup WindowKeys(ttree, m.pre[d])
        /\ tnode_num_keys(m.post[d]) = 1
        /\ m.post[d].min_idx = (ttree.keys_per_tnode \div 2) - 1
        /\ \A a \in {left, right} \ {d} : m.post[a] = m.pre[a]
        /\ \A a \in WindowKeys(ttree, m.post[left]) :
              \A b \in WindowKeys(ttree, m.post[T]) : a < b
        /\ \A a \in WindowKeys(ttree, m.post[right]) :
              \A b \in WindowKeys(ttree, m.post[T]) : a > b

\* C18: in rebalance, after a double rotation whose new subtree root T holds
\* one key and whose children are both half-leaves, the donor is the child
\* with more keys (the right one on a tie); all of its keys but one are moved
\* into T, whose window is then sorted and holds as many keys as the donor
\* had; the donor keeps one key, at slot (M/2)-1; the keys of the left child
\* stay smaller than those of T and the keys of the right child greater.
\* This holds for the post-insert fixup and for the post-delete fixup.
C18_Migration ==
    \A k \in Items :
        \A m \in InsertMigrations(k) \cup DeleteMigrations(k) :
            C18_MigratedFrom(m, Donor(m))

\* the part of C18 about the post-insert fixup
C18_InsertMigration ==
    \A k \in Items :
        \A m \in InsertMigrations(k) : C18_MigratedFrom(m, Donor(m))

\* a left-donor migration in the post-insert fixup
C18_InsertLeftDonor ==
    \E k \in Items :
        \E m \in InsertMigrations(k) :
            Donor(m) = m.pre[m.node].sides[TNODE_LEFT]

\* a right-donor migration that moves a key in the post-delete fixup
C18_DeleteRightDonor ==
    \E k \in Items :
        \E m \in DeleteMigrations(k) :
            /\ Donor(m) = m.pre[m.node].sides[TNODE_RIGHT]
            /\ tnode_num_keys(m.pre[Donor(m)]) = 2

\* what C19 asks of the key migration m: rebalance called the other way,
\* without a cursor for with one, leaves the same three nodes
C19_SameWithout(m, other) ==
    Family(other.h, m.node) = m.post

\* C19: the tree that rebalance leaves does not depend on its cursor
\* argument: for the same subtree, the call with cursor NULL (post-delete
\* fixup) and the call with a cursor (post-insert fixup) leave the same
\* nodes, keys, windows and links, for the left-donor and for the
\* right-donor migration.
C19_CursorIndependent ==
    \A k \in Items :
        \A m \in InsertMigrations(k) \cup DeleteMigrations(k) :
            C19_SameWithout(m, KeyMigration(ttree, m.pre, m.node,
                                            ~m.hasCursor, ClosedCursor))

(***************************************************************************)
(* The cursor of a ttree_lookup that misses.                               *)
(***************************************************************************)
\* the nodes that a descent for key value k visits from n on: left where k
\* is below the minimum key of the node, right where it is above
RECURSIVE DescentPath(_, _, _, _)
DescentPath(t, h, n, k) ==
    IF n = NULL THEN << >>
    ELSE <<n>> \o DescentPath(t, h,
                      IF k < KeyValue(t, tnode_key_min(h[n]))
                      THEN h[n].sides[TNODE_LEFT]
                      ELSE h[n].sides[TNODE_RIGHT], k)

LastVisited(path) == path[Len(path)]

\* the last node of the path whose minimum key is below k, if k is also
\* below its maximum key; NULL if there is none
BoundingNode(t, h, path, k) ==
    LET below == {i \in 1..Len(path) :
                     KeyValue(t, tnode_key_min(h[path[i]])) < k}
    IN  IF below = {} THEN NULL
        ELSE IF k < KeyValue(t, tnode_key_max(h[path[SetMax(below)]]))
        THEN path[SetMax(below)]
        ELSE NULL

\* idx is where key value k goes into node n to keep its window sorted
InsertionIdx(t, n, idx, k) ==
    /\ idx >= n.min_idx
    /\ idx <= n.max_idx + 1
    /\ \A i \in n.min_idx..n.max_idx :
          IF i < idx THEN KeyValue(t, ReadKey(n.keys, i)) < k
          ELSE KeyValue(t, ReadKey(n.keys, i)) > k

\* what C20 says of the cursor after a miss on key value k, path being the
\* nodes the descent visited
C20_AsClaimed(path, k) ==
    /\ cursor.state = CURSOR_PENDING
    /\ cursor.tnode = LastVisited(path)
    /\ IF ~tnode_is_full(ttree, tn[LastVisited(path)])
       THEN /\ cursor.side = TNODE_BOUND
            /\ InsertionIdx(ttree, tn[cursor.tnode], cursor.idx, k)
       ELSE /\ cursor.side \in {TNODE_LEFT, TNODE_RIGHT}
            /\ tn[cursor.tnode].sides[cursor.side] = NULL

\* C20: when ttree_lookup misses, the cursor is left PENDING: if the last
\* node visited by the descent has a free slot, the cursor names that node
\* with side BOUND and the index at which the key must be inserted to keep
\* the node sorted; otherwise it names the last-visited node with side LEFT
\* or RIGHT, the child slot a new leaf should occupy.
C20_MissCursor ==
    (op = "lookup" /\ ret = NULL /\ ttree.root # NULL) =>
        C20_AsClaimed(DescentPath(ttree, tn, ttree.root, lkey), lkey)

\* the cursor after a miss on key value k, as the code leaves it; b is the
\* bounding node of the path
C20_AsCoded(path, b, k) ==
    /\ cursor.state = CURSOR_PENDING
    /\ IF b # NULL
       THEN /\ cursor.tnode = b
            /\ cursor.side = TNODE_BOUND
            /\ InsertionIdx(ttree, tn[b], cursor.idx, k)
       ELSE /\ cursor.tnode = LastVisited(path)
            /\ IF ~tnode_is_full(ttree, tn[LastVisited(path)])
               THEN /\ cursor.side = TNODE_BOUND
                    /\ InsertionIdx(ttree, tn[cursor.tnode], cursor.idx, k)
               ELSE /\ cursor.side =
                          IF k < KeyValue(ttree, tnode_key_min(tn[cursor.tnode]))
                          THEN TNODE_LEFT ELSE TNODE_RIGHT
                    /\ tn[cursor.tnode].sides[cursor.side] = NULL
                    /\ cursor.idx = (ttree.keys_per_tnode \div 2) - 1

\* C20, amended: when ttree_lookup misses, the cursor is left PENDING.  On
\* an empty tree it names no node, with side BOUND and index (M/2)-1.  If the
\* last node of the descent whose minimum is below the key also has its
\* maximum above the key, the cursor names that bounding node with side
\* BOUND and the index that keeps the node sorted, whether or not the node
\* is full or the last one visited.  Otherwise it is as C20 says.
C20_MissCursorBounded ==
    (op = "lookup" /\ ret = NULL) =>
        IF ttree.root = NULL
        THEN /\ cursor.state = CURSOR_PENDING
             /\ cursor.tnode = NULL
             /\ cursor.side = TNODE_BOUND
             /\ cursor.idx = (ttree.keys_per_tnode \div 2) - 1
        ELSE \E path \in {DescentPath(ttree, tn, ttree.root, lkey)} :
                 C20_AsCoded(path, BoundingNode(ttree, tn, path, lkey), lkey)

\* C20 witness: a miss on a key that a full node bounds which is not the
\* last node the descent visited
C20_Witness ==
    /\ op = "lookup" /\ ret = NULL /\ ttree.root # NULL
    /\ cursor.state = CURSOR_PENDING
    /\ cursor.side = TNODE_BOUND
    /\ tnode_is_full(ttree, tn[cursor.tnode])
    /\ cursor.tnode # LastVisited(DescentPath(ttree, tn, ttree.root, lkey))
    /\ cursor.idx > tn[cursor.tnode].min_idx + 1

(***************************************************************************)
(* Bound insertion into a full node.                                       *)
(***************************************************************************)
\* ttree_insert of item k is a bound insertion into a full node: the lookup
\* l misses and leaves a BOUND cursor on a full node
BoundFull(l) ==
    /\ l.item = NULL
    /\ l.cursor.tnode # NULL
    /\ l.cursor.side = TNODE_BOUND
    /\ tnode_is_full(ttree, tn[l.cursor.tnode])

\* every node but those of S is on the heap after the step as before it,
\* with the same keys
OthersKeepKeys(S) ==
    \A b \in (DOMAIN tn) \ S :
        b \in DOMAIN tn' /\ NodeKeys(ttree, tn'[b]) = NodeKeys(ttree, tn[b])

\* what C21 asks of the step that inserts item k into the full node n; max
\* is the former maximum key of n
C21_Displaced(n, k, max) ==
    /\ tnode_is_full(ttree', tn'[n])
    /\ StrictlyIncreasing(NodeKeys(ttree', tn'[n]))
    /\ WindowKeys(ttree', tn'[n]) = (WindowKeys(ttree, tn[n]) \ {max}) \cup {k}
    /\ IF tn[n].sides[TNODE_RIGHT] = NULL
       THEN \E a \in (DOMAIN tn') \ (DOMAIN tn) :
               /\ DOMAIN tn' = (DOMAIN tn) \cup {a}
               /\ tn'[n].sides[TNODE_RIGHT] = a
               /\ is_leaf_node(tn'[a])
               /\ NodeKeys(ttree', tn'[a]) = <<max>>
               /\ OthersKeepKeys({n})
       ELSE IF tnode_is_full(ttree, tn[tn[n].successor])
       THEN \E a \in (DOMAIN tn') \ (DOMAIN tn) :
               /\ DOMAIN tn' = (DOMAIN tn) \cup {a}
               /\ tn'[tn[n].successor].sides[TNODE_LEFT] = a
               /\ is_leaf_node(tn'[a])
               /\ NodeKeys(ttree', tn'[a]) = <<max>>
               /\ OthersKeepKeys({n})
       ELSE /\ DOMAIN tn' = DOMAIN tn
            /\ NodeKeys(ttree', tn'[tn[n].successor])
                  = <<max>> \o NodeKeys(ttree, tn[tn[n].successor])
            /\ OthersKeepKeys({n, tn[n].successor})

\* what C21 asks of a ttree_insert(k) step whose lookup returned l
C21_InsertStep(k, l) ==
    BoundFull(l) =>
        C21_Displaced(l.cursor.tnode, k,
                      KeyValue(ttree, tnode_key_max(tn[l.cursor.tnode])))

Unrotated ==
    \A b \in DOMAIN tn : b \in DOMAIN tn' /\ tn'[b].parent = tn[b].parent

\* what holds of a ttree_insert(k) step whose lookup returned l
C21_InsertStepUnrotated(k, l) ==
    BoundFull(l) =>
        /\ Cardinality((DOMAIN tn') \ (DOMAIN tn)) <= 1
        /\ DOMAIN tn \subseteq DOMAIN tn'
        /\ \A j \in Items :
              KeyCount(ttree', tn', j)
                 = KeyCount(ttree, tn, j) + (IF j = k THEN 1 ELSE 0)
        /\ Unrotated =>
              C21_Displaced(l.cursor.tnode, k,
                            KeyValue(ttree, tnode_key_max(tn[l.cursor.tnode])))

NoRelink(r) ==
    \A b \in DOMAIN tn : r.h[b].parent = tn[b].parent

OnSingleKey(m, c) ==
    c.tnode = m.node /\ c.idx = m.pre[m.node].min_idx

\* the cursor moved names, after the migration m, the key that the cursor c
\* named before it
NamesSameKey(m, c, moved) ==
    /\ moved.tnode \in DOMAIN m.post
    /\ moved.idx >= m.post[moved.tnode].min_idx
    /\ moved.idx <= m.post[moved.tnode].max_idx
    /\ ReadKey(m.post[moved.tnode].keys, moved.idx)
          = ReadKey(m.pre[c.tnode].keys, c.idx)

\* C22: a cursor that references the new subtree root T, at the slot of its
\* single key, before the key migration references the same key after it:
\* its node and index name the slot where T's original key now lives.
C22_CursorOnRoot ==
    \A k \in Items :
        \A m \in InsertMigrations(k) :
            (m.hasCursor /\ OnSingleKey(m, m.cursor)) =>
                (m.moved.tnode = m.node /\ NamesSameKey(m, m.cursor, m.moved))

\* the cursors on the keys of the donor d of the migration m
DonorCursors(m, d) ==
    {[tnode |-> d, idx |-> i, side |-> TNODE_BOUND, state |-> CURSOR_OPENED] :
        i \in m.pre[d].min_idx..m.pre[d].max_idx}

\* what C23 asks of rebalance with the cursor c on the donor d, out being
\* what the key migration hands back
C23_Rewritten(m, d, c, out) ==
    /\ Family(out.h, m.node) = m.post
    /\ NamesSameKey(m, c, out.cursor)
    /\ out.cursor.tnode = d =>
          out.cursor.idx = (ttree.keys_per_tnode \div 2) - 1

C23_CursorOnRightDonor ==
    \A k \in Items :
        \A m \in InsertMigrations(k) :
            Donor(m) = m.pre[m.node].sides[TNODE_RIGHT] =>
                \A c \in DonorCursors(m, Donor(m)) :
                    C23_Rewritten(m, Donor(m), c,
                        KeyMigration(ttree, m.pre, m.node, TRUE, c))

(***************************************************************************)
(* Insertion into a node that is not full.                                 *)
(***************************************************************************)
\* ttree_insert is an insertion into a node with room: the lookup l misses
\* and leaves a BOUND cursor on a node that is not full
BoundRoom(l) ==
    /\ l.item = NULL
    /\ l.cursor.tnode # NULL
    /\ l.cursor.side = TNODE_BOUND
    /\ ~tnode_is_full(ttree, tn[l.cursor.tnode])

FreeRight(t, n) == t.keys_per_tnode - 1 - n.max_idx
FreeLeft(t, n) == n.min_idx

\* the window of node a grows by one slot, to the right or to the left, and
\* holds the old keys and k in order
GrowsTo(a, k, right) ==
    /\ IF right
       THEN tn'[a].min_idx = tn[a].min_idx /\ tn'[a].max_idx = tn[a].max_idx + 1
       ELSE tn'[a].min_idx = tn[a].min_idx - 1 /\ tn'[a].max_idx = tn[a].max_idx
    /\ StrictlyIncreasing(NodeKeys(ttree', tn'[a]))
    /\ WindowKeys(ttree', tn'[a]) = WindowKeys(ttree, tn[a]) \cup {k}

\* C24: inserting a key into a non-full node grows the window by one slot on
\* the side that has more free slots, and to the right when both sides have
\* the same number of free slots; afterwards the window is sorted and holds
\* the old keys plus the new one.
C24_GrowRightOnTie ==
    [][\A k \in WideItems :
          Insert(k) =>
             \A l \in {ttree_lookup(ttree, tn, ttree_item2key(ttree, k))} :
                 BoundRoom(l) =>
                     GrowsTo(l.cursor.tnode, k,
                             FreeRight(ttree, tn[l.cursor.tnode])
                                >= FreeLeft(ttree, tn[l.cursor.tnode]))]_vars

\* the window of node a grows by one slot, to the right or to the left, and
\* holds the old keys in their order with k put in between; it is sorted if
\* it was
GrowsAround(a, k, right) ==
    /\ IF right
       THEN tn'[a].min_idx = tn[a].min_idx /\ tn'[a].max_idx = tn[a].max_idx + 1
       ELSE tn'[a].min_idx = tn[a].min_idx - 1 /\ tn'[a].max_idx = tn[a].max_idx
    /\ \E i \in 0..tnode_num_keys(tn[a]) :
          NodeKeys(ttree', tn'[a])
             = SubSeq(NodeKeys(ttree, tn[a]), 1, i) \o <<k>>
                  \o SubSeq(NodeKeys(ttree, tn[a]), i + 1,
                            tnode_num_keys(tn[a]))
    /\ StrictlyIncreasing(NodeKeys(ttree, tn[a]))
          => StrictlyIncreasing(NodeKeys(ttree', tn'[a]))

\* C24, amended: inserting a key into a non-full node grows the window by
\* one slot to the right if the right side has more free slots than the
\* left, and to the left otherwise, also when both sides have the same
\* number of free slots; afterwards the window holds the old keys in their
\* order and the new one among them, and it is sorted if it was before.
C24_GrowLeftOnTie ==
    [][\A k \in WideItems :
          Insert(k) =>
             \A l \in {ttree_lookup(ttree, tn, ttree_item2key(ttree, k))} :
                 BoundRoom(l) =>
                     GrowsAround(l.cursor.tnode, k,
                             FreeRight(ttree, tn[l.cursor.tnode])
                                > FreeLeft(ttree, tn[l.cursor.tnode]))]_vars

\* the heap after ttree_insert left r has the window of node a one slot
\* further to the left
GrownLeft(r, a) ==
    r.h[a].min_idx = tn[a].min_idx - 1 /\ r.h[a].max_idx = tn[a].max_idx

\* C24 witness: an insertion is about to grow to the left a window that has
\* as many free slots on its right as on its left
C24_Witness ==
    \E k \in WideItems \ TreeKeys(ttree, tn) :
        \E l \in {ttree_lookup(ttree, tn, ttree_item2key(ttree, k))} :
            /\ BoundRoom(l)
            /\ FreeRight(ttree, tn[l.cursor.tnode])
                  = FreeLeft(ttree, tn[l.cursor.tnode])
            /\ GrownLeft(ttree_insert(ttree, tn, k), l.cursor.tnode)

(***************************************************************************)
(* The life of the nodes.                                                  *)
(***************************************************************************)
\* every link of every node on heap h is NULL or names a node on the heap
NoDanglingLink(h) ==
    \A n \in DOMAIN h :
        /\ h[n].parent \in (DOMAIN h) \cup {NULL}
        /\ h[n].successor \in (DOMAIN h) \cup {NULL}
        /\ h[n].sides[TNODE_LEFT] \in (DOMAIN h) \cup {NULL}
        /\ h[n].sides[TNODE_RIGHT] \in (DOMAIN h) \cup {NULL}

\* what C25 asks of one step
C25_Step ==
    /\ op' = "insert" =>
          /\ DOMAIN tn \subseteq DOMAIN tn'
          /\ Cardinality((DOMAIN tn') \ (DOMAIN tn)) <= 1
          /\ (DOMAIN tn' # DOMAIN tn) => ret' = 0
    /\ op' = "delete" =>
          /\ DOMAIN tn' \subseteq DOMAIN tn
          /\ Cardinality((DOMAIN tn) \ (DOMAIN tn')) <= 1
          /\ \A f \in (DOMAIN tn) \ (DOMAIN tn') : is_leaf_node(tn[f])
          /\ (DOMAIN tn' # DOMAIN tn) => ret' # NULL
    /\ SubtreeNodes(tn', ttree'.root) = DOMAIN tn'
    /\ NoDanglingLink(tn')

\* C25: a node is allocated only by an insertion that needs a new leaf, at
\* most one per ttree_insert, and freed only by a deletion that leaves it an
\* empty leaf, at most one per ttree_delete; rotations and key migration
\* allocate and free nothing; after any sequence of operations the nodes
\* allocated and not freed are the nodes reachable from the root, and no
\* link (parent, child, successor) names a freed node.
C25_Lifecycle == [][C25_Step]_vars

\* C25 witness: a ttree_delete is about to free a leaf and to rebalance
\* with a double rotation and a key migration
C25_Witness ==
    \E k \in Items :
        /\ DeleteMigrations(k) # {}
        /\ \E d \in DeleteOutcomes(ttree, tn, ttree_item2key(ttree, k)) :
              Cardinality(DOMAIN d.h) = Cardinality(DOMAIN tn) - 1

(***************************************************************************)
(* The merge of a half-leaf with its leaf.                                 *)
(***************************************************************************)
\* ttree_delete of item k is about to leave the half-leaf it deletes from
\* with no more than min_tnode_entries keys: the node's address, the node
\* after decrease_tnode_window, its only child and the cursor at that point
HalfLeafLeft(k) ==
    LET l == ttree_lookup(ttree, tn, ttree_item2key(ttree, k))
    IN  IF l.item = NULL THEN {}
        ELSE LET a == l.cursor.tnode
                 w == decrease_tnode_window(ttree, tn[a], l.cursor.idx)
             IN  IF \/ tnode_num_keys(w.node) > min_tnode_entries(ttree)
                    \/ tnode_is_empty(w.node)
                    \/ is_internal_node(w.node)
                    \/ is_leaf_node(w.node)
                 THEN {}
                 ELSE {[tnode |-> a, node |-> w.node,
                        leaf |-> IF w.node.sides[TNODE_LEFT] # NULL
                                 THEN w.node.sides[TNODE_LEFT]
                                 ELSE w.node.sides[TNODE_RIGHT],
                        cursor |-> [l.cursor EXCEPT
                                      !.state = CURSOR_CLOSED,
                                      !.idx = IF w.idx > w.node.max_idx
                                              THEN w.node.max_idx
                                              ELSE w.idx]]}

\* the leaf of x fits in the free slots of the half-leaf of x
LeafFits(x) ==
    tnode_num_keys(tn[x.leaf])
       <= ttree.keys_per_tnode - tnode_num_keys(x.node)

\* what C26 asks of the merged node m.node and of the cursor m.cursor
C26_MergedNode(x, m) ==
    /\ m.node.min_idx >= 0
    /\ m.node.max_idx <= ttree.keys_per_tnode - 1
    /\ NodeKeys(ttree, m.node)
          = SortedSeq(WindowKeys(ttree, x.node)
                         \cup WindowKeys(ttree, tn[x.leaf]))
    /\ tnode_num_keys(m.node)
          = tnode_num_keys(x.node) + tnode_num_keys(tn[x.leaf])
    /\ ReadKey(m.node.keys, m.cursor.idx)
          = ReadKey(x.node.keys, x.cursor.idx)

\* what C26 asks of the outcome d of the whole deletion
C26_Outcome(x, d) ==
    IF LeafFits(x)
    THEN /\ x.leaf \notin DOMAIN d.h
         /\ NoDanglingLink(d.h)
         /\ x.tnode \in DOMAIN d.h
    ELSE /\ x.leaf \in DOMAIN d.h /\ d.h[x.leaf] = tn[x.leaf]
         /\ x.tnode \in DOMAIN d.h /\ d.h[x.tnode] = x.node

\* C26: when ttree_delete_at_cursor leaves a half-leaf with at most
\* M - M/4 keys, the half-leaf is merged with its only child leaf if and
\* only if the leaf's key count is at most the half-leaf's free capacity;
\* on a merge the half-leaf ends with all keys of both nodes in sorted order
\* inside slots 0..M-1, the leaf is detached and freed, and a cursor on the
\* half-leaf keeps naming the same slot content; without a merge neither
\* node changes further.
C26_Merge ==
    \A k \in WideItems : \A x \in HalfLeafLeft(k) :
        /\ LeafFits(x) =>
              \A dir \in MemcpyDirs :
                  C26_MergedNode(x, MergeLeaf(ttree, x.node, tn[x.leaf], TRUE,
                                              x.cursor, dir))
        /\ \A d \in DeleteOutcomes(ttree, tn, ttree_item2key(ttree, k)) :
              C26_Outcome(x, d)

(***************************************************************************)
(* The slots of the key array that the window functions touch.             *)
(***************************************************************************)
\* the slots increase_tnode_window reads and writes: its loop runs
\* keys[i] = keys[i - 1] for i from the new max_idx down to idx, or
\* keys[i] = keys[i + 1] for i from the new min_idx up to idx - 2
increase_tnode_window_slots(t, n, idx) ==
    IF (t.keys_per_tnode - 1 - n.max_idx) > n.min_idx
    THEN [written |-> {i \in (idx - 1)..(n.max_idx + 1) : i > idx - 1},
          read |-> {i - 1 : i \in {j \in (idx - 1)..(n.max_idx + 1) : j > idx - 1}}]
    ELSE [written |-> {i \in (n.min_idx - 1)..(idx - 1) : i < idx - 1},
          read |-> {i + 1 : i \in {j \in (n.min_idx - 1)..(idx - 1) : j < idx - 1}}]

\* the slots decrease_tnode_window reads and writes
decrease_tnode_window_slots(t, n, idx) ==
    IF (t.keys_per_tnode - 1 - n.max_idx) <= n.min_idx
    THEN [written |-> {i \in idx..(n.max_idx - 1) : TRUE},
          read |-> {i + 1 : i \in idx..(n.max_idx - 1)}]
    ELSE [written |-> {i \in (n.min_idx + 1)..idx : TRUE},
          read |-> {i - 1 : i \in (n.min_idx + 1)..idx}]

InArray(t, slots) ==
    (slots.read \cup slots.written) \subseteq 0..(t.keys_per_tnode - 1)

\* C27: every read and write of a node's key array made by
\* increase_tnode_window, decrease_tnode_window, insertion and deletion uses
\* an index in 0..M-1, and every node in a stable state satisfies
\* 0 <= min_idx <= max_idx <= M-1; in particular inserting a key at index
\* min_idx = 0 of a non-full node never touches slot -1.
C27_SlotsInArray ==
    /\ \A a \in DOMAIN tn :
          /\ 0 <= tn[a].min_idx
          /\ tn[a].min_idx <= tn[a].max_idx
          /\ tn[a].max_idx <= ttree.keys_per_tnode - 1
    /\ \A k \in WideItems :
          \A l \in {ttree_lookup(ttree, tn, ttree_item2key(ttree, k))} :
              /\ BoundRoom(l) =>
                    InArray(ttree,
                            increase_tnode_window_slots(ttree,
                                tn[l.cursor.tnode], l.cursor.idx))
              /\ l.item # NULL =>
                    InArray(ttree,
                            decrease_tnode_window_slots(ttree,
                                tn[l.cursor.tnode], l.cursor.idx))

\* the part of C27 that holds: the windows lie in the array and
\* decrease_tnode_window stays in it
C27_DecreaseInArray ==
    /\ \A a \in DOMAIN tn :
          /\ 0 <= tn[a].min_idx
          /\ tn[a].min_idx <= tn[a].max_idx
          /\ tn[a].max_idx <= ttree.keys_per_tnode - 1
    /\ \A k \in WideItems :
          \A l \in {ttree_lookup(ttree, tn, ttree_item2key(ttree, k))} :
              l.item # NULL =>
                  InArray(ttree,
                          decrease_tnode_window_slots(ttree,
                              tn[l.cursor.tnode], l.cursor.idx))

(***************************************************************************)
(* Trees with the largest nodes __ttree_init accepts.                      *)
(***************************************************************************)
LargeItems == 1..MaxLargeKey
LargeNumKeys == {TNODE_ITEMS_MAX \div 2, TNODE_ITEMS_MAX}

InitLarge ==
    /\ \E n \in LargeNumKeys, o \in KeyOffsets :
           \E r \in {__ttree_init(Uninitialized(FALSE), 0, TreeObject, n, TRUE,
                                  KeyCmp, o)} : r.ret = 0 /\ ttree = r.t
    /\ tn = EmptyHeap
    /\ cursor = ClosedCursor
    /\ op = "init"
    /\ ret = 0
    /\ present = {}
    /\ inserts = [k \in Items |-> 0]
    /\ lkey = NULL

\* no window has wrapped: past a wrapped index the code reads and writes
\* slots far outside the node, and what the program does is undefined
Unwrapped == \A a \in DOMAIN tn : tnode_num_keys(tn[a]) >= 1

NextLarge ==
    \/ \E k \in LargeItems : Unwrapped /\ Insert(k)
    \/ \E k \in LargeItems : Unwrapped /\ Delete(k)

SpecLarge == InitLarge /\ [][NextLarge]_vars

\* the value increase_tnode_window assigns to max_idx or to min_idx
increase_tnode_window_assigned(t, n) ==
    IF (t.keys_per_tnode - 1 - n.max_idx) > n.min_idx
    THEN n.max_idx + 1
    ELSE n.min_idx - 1

FitsSigned12(x) == x >= -2048 /\ x <= 2047

\* C28: for every keys-per-node value M that __ttree_init accepts
\* (2 <= M <= 4096), every value assigned to a node's min_idx and max_idx
\* fits the signed 12-bit fields that store them (-2048..2047), so
\* tnode_num_keys never observes a wrapped index.
C28_IndexFits ==
    /\ \A a \in DOMAIN tn : tnode_num_keys(tn[a]) >= 1
    /\ \A k \in LargeItems :
          \A l \in {ttree_lookup(ttree, tn, ttree_item2key(ttree, k))} :
              BoundRoom(l) =>
                  FitsSigned12(increase_tnode_window_assigned(ttree,
                                   tn[l.cursor.tnode]))

(***************************************************************************)
(* ttree_cursor_next and ttree_cursor_prev against each other.             *)
(***************************************************************************)
\* the OPENED cursors on the keys of the tree
OpenedCursors ==
    {[tnode |-> a, idx |-> i, side |-> TNODE_BOUND, state |-> CURSOR_OPENED] :
        <<a, i>> \in {x \in (DOMAIN tn) \X (0..(ttree.keys_per_tnode - 1)) :
                         /\ x[2] >= tn[x[1]].min_idx
                         /\ x[2] <= tn[x[1]].max_idx}}

CursorValue(c) == KeyValue(ttree, ReadKey(tn[c.tnode].keys, c.idx))
OnGlobalMax(c) == \A v \in TreeKeys(ttree, tn) : v <= CursorValue(c)
OnGlobalMin(c) == \A v \in TreeKeys(ttree, tn) : v >= CursorValue(c)

\* moving by there and back by back returns TCSR_OK twice and ends on the
\* slot of c
ThereAndBack(c, there, back) ==
    /\ there.ret = TCSR_OK
    /\ back.ret = TCSR_OK
    /\ back.cursor.tnode = c.tnode
    /\ back.cursor.idx = c.idx

\* the move r from c returns TCSR_END and leaves node and index alone
StaysAtEnd(c, r) ==
    r.ret = TCSR_END /\ r.cursor.tnode = c.tnode /\ r.cursor.idx = c.idx

\* what C29 asks of cursor c with the outcomes n of next and p of prev
C29_Moves(c, n, p) ==
    /\ IF OnGlobalMax(c) THEN StaysAtEnd(c, n)
       ELSE ThereAndBack(c, n, ttree_cursor_prev(tn, n.cursor))
    /\ IF OnGlobalMin(c) THEN StaysAtEnd(c, p)
       ELSE ThereAndBack(c, p, ttree_cursor_next(tn, p.cursor))

\* C29: ttree_cursor_prev is the inverse of ttree_cursor_next on OPENED
\* cursors: from every key other than the global maximum, next followed by
\* prev returns TCSR_OK twice and brings the cursor back to the same node and
\* index; symmetrically prev followed by next from every key other than the
\* global minimum; a next at the global maximum, or a prev at the global
\* minimum, returns TCSR_END and leaves node and index unchanged.
C29_PrevInvertsNext ==
    \A c \in OpenedCursors :
        C29_Moves(c, ttree_cursor_next(tn, c), ttree_cursor_prev(tn, c))

\* the last slot of the successor chain and the first slot of the leftmost
\* node
AtChainEnd(c) ==
    tn[c.tnode].successor = NULL /\ c.idx = tn[c.tnode].max_idx
AtChainStart(c) ==
    c.tnode = ttree_node_leftmost(tn, ttree.root) /\ c.idx = tn[c.tnode].min_idx

\* the same relation between the two moves with the ends of the walk taken
\* by position instead of by key value
C29_InverseByPosition ==
    \A c \in OpenedCursors :
        /\ \A n \in {ttree_cursor_next(tn, c)} :
              IF AtChainEnd(c) THEN StaysAtEnd(c, n)
              ELSE ThereAndBack(c, n, ttree_cursor_prev(tn, n.cursor))
        /\ \A p \in {ttree_cursor_prev(tn, c)} :
              IF AtChainStart(c) THEN StaysAtEnd(c, p)
              ELSE ThereAndBack(c, p, ttree_cursor_next(tn, p.cursor))

(***************************************************************************)
(* The links between the nodes.                                            *)
(***************************************************************************)
\* the child slots of heap h that hold node c
SlotsHolding(h, c) ==
    {x \in (DOMAIN h) \X {TNODE_LEFT, TNODE_RIGHT} : h[x[1]].sides[x[2]] = c}

\* C30: after every public mutation, including those that rotate at the
\* root, the link structure is consistent: the tree's root has a NULL parent
\* and side tag ROOT; every node c that is the left (right) child of a node p
\* has parent link p and side tag LEFT (RIGHT); and every node is reachable
\* from the root by child links exactly once.
C30_Links ==
    /\ (ttree.root = NULL) <=> (DOMAIN tn = {})
    /\ ttree.root # NULL =>
          /\ ttree.root \in DOMAIN tn
          /\ tn[ttree.root].parent = NULL
          /\ tnode_get_side(tn[ttree.root]) = TNODE_ROOT
          /\ SlotsHolding(tn, ttree.root) = {}
    /\ \A p \in DOMAIN tn : \A side \in {TNODE_LEFT, TNODE_RIGHT} :
          tn[p].sides[side] # NULL =>
              /\ tn[p].sides[side] \in DOMAIN tn
              /\ tn[tn[p].sides[side]].parent = p
              /\ tnode_get_side(tn[tn[p].sides[side]]) = side
    /\ SubtreeNodes(tn, ttree.root) = DOMAIN tn
    /\ \A c \in (DOMAIN tn) \ {ttree.root} :
          Cardinality(SlotsHolding(tn, c)) = 1

\* C30 witness: a mutation has just put another node at the root of a tree
\* of three levels, and the old root is its child
C30_Witness ==
    /\ op \in {"insert", "delete"}
    /\ ttree.root # NULL
    /\ Height(tn, ttree.root) >= 3
    /\ \E a \in DOMAIN tn :
          /\ a < ttree.root
          /\ tn[a].parent = ttree.root
          /\ \A b \in DOMAIN tn : b >= a

====
